---------------------------- MODULE Spec2Model ----------------------------
(***************************************************************************)
(* Execution Result Correlation Engine of TeaPie.Extensions.               *)
(*                                                                         *)
(*   StructuredJsonParser.parseStructuredJsonRequests  (JSONL ingestion)   *)
(*   XmlTestParser.parseTestResultsFromXml             (test attribution)  *)
(*   TeaPieExecutor.parseOutput / buildHttpRequestResults (aggregation)    *)
(*                                                                         *)
(* Strings of the program are TLA+ strings.  null and undefined are the    *)
(* strings Null and Undefined.  A duration text such as "12ms" is the pair *)
(* <<12, "ms">>.  A JavaScript Map whose iteration order is used is a      *)
(* sequence of entries in insertion order; a Map that is only read by key  *)
(* is a function on its key set.                                           *)
(***************************************************************************)
EXTENDS Integers, Sequences, FiniteSets, TLC

VARIABLES
    fileExists,         \* JSONL: fs.access(requestsFilePath) succeeds
    fileReadable,       \* JSONL: fs.readFile(requestsFilePath) succeeds
    fileLines,          \* JSONL: fileContent split on '\n'
    jsonPc,             \* position in parseStructuredJsonRequests
    lines,              \* JSONL: the non-blank lines (local `lines`)
    requestMap,         \* JSONL: local `requestMap`, in insertion order
    foundHttpRequest,   \* JSONL: local `foundHttpRequest`
    parseResult,        \* JSONL: the CliParseResult returned
    xmlSuites,          \* XML: the <testsuite> matches of the report, in order
    httpFileRequests,   \* XML: HttpFileParser.parseHttpFileForNames(filePath)
    xmlPc,              \* position in parseTestResultsFromXml
    suiteIdx,           \* XML: number of suites consumed
    allTestsByRequest,  \* XML: local `allTestsByRequest`
    testResults,        \* XML: local `testResults`, the mapping returned
    xmlRun,             \* XML: 1 in the first call of the parser, 2 in the second
    previousResults,    \* XML: the mapping the first call returned
    buildPc,            \* position in parseOutput after both parsers
    result,             \* the HttpRequestResults returned by parseOutput
    now,                \* waiter: Date.now(), in milliseconds
    reportFile,         \* waiter: the file at reportPath (exists, mtime)
    waitPc,             \* position in waitForXmlReportUpdate
    beforeTimestamp,    \* waiter: parameter `beforeTimestamp`
    maxWaitTime,        \* waiter: local `maxWaitTime`
    startTime,          \* waiter: local `startTime`
    wakeAt,             \* waiter: the time the pending setTimeout fires
    lastStat,           \* waiter: `currentTimestamp` of the last poll
    lastPollAt,         \* waiter: the time of the last poll
    updatedAt,          \* when the file's mtime first exceeded the baseline
    writes,             \* number of writes of the report file so far
    waitWarned,         \* waiter: the timeout warning was logged
    execPc,             \* position in executeTeaPie
    workspaceOpen,      \* executeTeaPie: a workspace folder is open
    lastRunFile,        \* reports directory: last-run-report.xml
    otherRuns,          \* reports directory: run-<ts>-report.xml of other runs
    dirFiles,           \* reports directory: the names of its other files
    dirReadable,        \* reports directory: fs.readdir succeeds
    reportPath,         \* XmlTestParser: local `reportPath`, the file read
    parsedReport,       \* the report file parseTestResultsFromXml read
    events,             \* executeTeaPie: what happened so far, in order
    thrown,             \* executeTeaPie: the message of the Error thrown
    meaningfulError,    \* executeTeaPie: local `meaningfulError`
    execResult,         \* executeTeaPie: the HttpRequestResults returned
    callPc,             \* runner: position of each runHttpFile call
    currentExecution,   \* runner: static field `currentExecution`
    executions,         \* runner: each _runHttpFileInternal promise
    reactions,          \* runner: the calls awaiting each promise, in order
    microtasks,         \* runner: the continuations ready to resume, in order
    lastRequestId,      \* runner: static field `lastRequestId`
    panelHtml,          \* runner: currentPanel.webview.html, NoPage without panel
    started             \* runner: the executions started so far, in order

vars == <<fileExists, fileReadable, fileLines, jsonPc, lines, requestMap,
          foundHttpRequest, parseResult, xmlSuites, httpFileRequests, xmlPc,
          suiteIdx, allTestsByRequest, testResults, xmlRun,
          previousResults, buildPc, result, now, reportFile, waitPc,
          beforeTimestamp, maxWaitTime, startTime, wakeAt, lastStat,
          lastPollAt, updatedAt, writes, waitWarned, execPc, workspaceOpen,
          lastRunFile, otherRuns, dirFiles, dirReadable, reportPath,
          parsedReport, events, thrown, meaningfulError,
          execResult,
          callPc, currentExecution, executions, reactions, microtasks,
          lastRequestId, panelHtml, started>>

jsonVars  == <<fileExists, fileReadable, fileLines, jsonPc, lines, requestMap,
               foundHttpRequest, parseResult>>
xmlVars   == <<xmlSuites, httpFileRequests, xmlPc, suiteIdx,
               allTestsByRequest, testResults, xmlRun, previousResults>>
buildVars == <<buildPc, result>>
waitVars  == <<now, reportFile, waitPc, beforeTimestamp, maxWaitTime,
               startTime, wakeAt, lastStat, lastPollAt, updatedAt, writes,
               waitWarned>>
execVars  == <<execPc, workspaceOpen, lastRunFile, otherRuns, dirFiles,
               dirReadable, reportPath, parsedReport,
               events, thrown, meaningfulError, execResult>>
runVars   == <<callPc, currentExecution, executions, reactions, microtasks,
               lastRequestId, panelHtml, started>>
\* What the parsers and the aggregation leave alone.
sideVars  == <<waitVars, execVars, runVars>>
\* What the waiter leaves alone.
pipeVars  == <<jsonVars, xmlVars, buildVars>>

-----------------------------------------------------------------------------
(* Bounds of the model. *)

\* Lines of the JSONL file.
MaxLines == 3

\* Suites of the XML report.
MaxSuites == 2

\* Test cases of the XML report, all suites together.
MaxCases == 4

\* Requests of the .http file.
MaxRequests == 2

\* Test directives of one request.
MaxCount == 2

\* Accepted lines of the log handed to the aggregation.
MaxBuildLines == 2

\* Tests of one key of the mapping handed to the aggregation.
MaxTests == 2

\* The greatest modification time of the report file.
MaxMtime == 2

\* The greatest timeout of the waiter, in steps of the clock.
MaxWaitSteps == 10

\* Writes of the report file during one wait.
MaxWrites == 2

\* Files of the reports directory beside last-run-report.xml.
MaxFiles == 3

-----------------------------------------------------------------------------
(* Values shared by the components. *)

Null      == "null"
Undefined == "undefined"

STATUS_PASSED       == "Passed"
STATUS_FAILED       == "Failed"
STATUS_TESTS_FAILED == "TestsFailed"

ERROR_CONNECTION_REFUSED ==
    "Connection refused - please ensure the server is running and accessible"
ERROR_HOST_NOT_FOUND ==
    "Host not found - please check the URL in your HTTP request"
ERROR_TIMEOUT == "Request timed out - server may be unresponsive"
ERROR_EXECUTION_FAILED == "HTTP request execution failed"
ERROR_NO_HTTP_FOUND == "No HTTP requests were found in this file."

RequestNames == {"A", "B"}

\* s.includes(t)
Includes(s, t) ==
    \E i \in 1..(Len(s) - Len(t) + 1) : SubSeq(s, i, i + Len(t) - 1) = t

Range(s) == {s[i] : i \in DOMAIN s}

SeqsUpTo(S, n) == UNION {[1..k -> S] : k \in 0..n}

\* `${Math.round(x)}ms` for x >= 0 given in tenths of a millisecond.
MathRound(tenths) == (tenths + 5) \div 10
FormatMs(tenths)  == <<MathRound(tenths), "ms">>

-----------------------------------------------------------------------------
(* JSONL ingestion: StructuredJsonParser.parseStructuredJsonRequests *)

ReasonPhraseOf(status) ==
    CASE status = 200 -> "OK"
      [] status = 500 -> "Internal Server Error"
      [] OTHER        -> ""

\* One line of the log.  kind: "blank" (white space only), "badjson"
\* (JSON.parse throws), "noentry" (no Properties.RequestLogFileEntry),
\* "entry".  hasRequest/hasResponse: the entry's Request/Response is truthy.
LineOf(kind, hasReq, hasResp, name, status, errors, pipeline) ==
    [kind        |-> kind,
     hasRequest  |-> hasReq,
     hasResponse |-> hasResp,
     RequestId   |-> 0,
     StartTime   |-> 0,
     DurationMs  |-> 0,
     Request     |-> [Name |-> name, Method |-> "GET", Uri |-> "http://" \o name,
                      Headers |-> {}, Body |-> Undefined],
     Response    |-> [StatusCode |-> status, ReasonPhrase |-> ReasonPhraseOf(status),
                      Headers |-> {}, Body |-> 0],
     Errors      |-> errors,
     Metadata    |-> [hasResiliencePipeline |-> pipeline]]

LineShapes ==
    {LineOf("blank", FALSE, FALSE, "A", 0, <<>>, FALSE),
     LineOf("badjson", FALSE, FALSE, "A", 0, <<>>, FALSE),
     LineOf("noentry", FALSE, FALSE, "A", 0, <<>>, FALSE),
     LineOf("entry", FALSE, TRUE, "A", 200, <<>>, FALSE),
     LineOf("entry", TRUE, FALSE, "B", 0, <<>>, FALSE),
     LineOf("entry", TRUE, TRUE, "A", 0, <<>>, FALSE),
     LineOf("entry", TRUE, TRUE, "B", 200, <<"", "ECONNREFUSED 127.0.0.1:80">>, FALSE),
     LineOf("entry", TRUE, TRUE, "A", 500, <<"timeout">>, TRUE)}
    \cup {LineOf("entry", TRUE, TRUE, n, s, <<>>, FALSE) :
            n \in RequestNames, s \in {200, 500}}

\* The log is written in time order: line i carries request id i, start time
\* i, its own duration (i.4 or i.5 ms) and its own response headers and body.
Stamp(shape, i) ==
    [shape EXCEPT !.RequestId = i,
                  !.StartTime = i,
                  !.DurationMs = 10 * i + 4 + (i % 2),
                  !.Response = [@ EXCEPT !.Headers = {i}, !.Body = i]]

IsBlank(line) == line.kind = "blank"

RECURSIVE NonBlankLines(_)
\* fileContent.trim().split('\n').filter(line => line.trim())
NonBlankLines(fl) ==
    IF fl = <<>> THEN <<>>
    ELSE (IF IsBlank(Head(fl)) THEN <<>> ELSE <<Head(fl)>>) \o NonBlankLines(Tail(fl))

\* The line survives JSON.parse and both validations of the first pass.
Accepted(line) ==
    /\ line.kind = "entry"
    /\ line.hasRequest
    /\ line.hasResponse

HasKey(map, key) == \E g \in DOMAIN map : map[g].key = key

KeyIdx(map, key) == CHOOSE g \in DOMAIN map : map[g].key = key

\* A mutation of GroupEntry: a repeated name replaces the stored entries.
GroupEntryOverwrite(map, key, entry) ==
    IF ~HasKey(map, key)
    THEN Append(map, [key |-> key, firstEntry |-> entry, allEntries |-> <<entry>>])
    ELSE [map EXCEPT ![KeyIdx(map, key)].allEntries = <<entry>>]

\* requestMap.set(key, {firstEntry, allEntries: [entry]}) for a new key,
\* requestMap.get(key).allEntries.push(entry) otherwise.
GroupEntry(map, key, entry) ==
    IF ~HasKey(map, key)
    THEN Append(map, [key |-> key, firstEntry |-> entry, allEntries |-> <<entry>>])
    ELSE [map EXCEPT ![KeyIdx(map, key)].allEntries = Append(@, entry)]

StatusSuccess(status) == status # 0 /\ status >= 200 /\ status < 300

RetryAttemptOf(entry, index) ==
    [attemptNumber |-> index + 1,
     timestamp     |-> entry.StartTime,
     success       |-> StatusSuccess(entry.Response.StatusCode),
     statusCode    |-> entry.Response.StatusCode,
     statusText    |-> entry.Response.ReasonPhrase,
     duration      |-> FormatMs(entry.DurationMs),
     reason        |-> IF index = 0 THEN "Initial attempt" ELSE "Retry"]

\* A mutation of RetryInfoOf: attempts numbered from 0, one attempt counts
\* as a retry.
RetryInfoOffByOne(firstEntry, allEntries) ==
    [strategyName   |-> IF firstEntry.Metadata.hasResiliencePipeline
                        THEN "Resilience Pipeline" ELSE Undefined,
     actualAttempts |-> Len(allEntries),
     wasRetried     |-> Len(allEntries) >= 1,
     attempts       |-> [k \in 1..Len(allEntries) |->
                            [RetryAttemptOf(allEntries[k], k - 1)
                                EXCEPT !.attemptNumber = k - 1]]]

RetryInfoOf(firstEntry, allEntries) ==
    [strategyName   |-> IF firstEntry.Metadata.hasResiliencePipeline
                        THEN "Resilience Pipeline" ELSE Undefined,
     actualAttempts |-> Len(allEntries),
     wasRetried     |-> Len(allEntries) > 1,
     attempts       |-> [k \in 1..Len(allEntries) |->
                            RetryAttemptOf(allEntries[k], k - 1)]]

\* A mutation of LastEntry: the first attempt supplies the response.
LastEntryIsFirst(allEntries) == allEntries[1]

\* allEntries[allEntries.length - 1]
LastEntry(allEntries) == allEntries[Len(allEntries)]

\* A mutation of Truthy: the empty strings are kept.
TruthyKeepsEmpty(errs) == errs

RECURSIVE Truthy(_)
\* errs.filter(err => err)
Truthy(errs) ==
    IF errs = <<>> THEN <<>>
    ELSE (IF Head(errs) = "" THEN <<>> ELSE <<Head(errs)>>) \o Truthy(Tail(errs))

RECURSIVE FlatErrors(_)
\* allEntries.flatMap(entry => entry.Errors).filter(err => err)
FlatErrors(allEntries) ==
    IF allEntries = <<>> THEN <<>>
    ELSE Truthy(Head(allEntries).Errors) \o FlatErrors(Tail(allEntries))

RECURSIVE JoinErrors(_)
\* errors.join('; ')
JoinErrors(errors) ==
    IF Len(errors) = 1 THEN errors[1]
    ELSE errors[1] \o "; " \o JoinErrors(Tail(errors))

OrDefault(value, falsy, default) == IF value = falsy THEN default ELSE value

InternalRequestOf(group) ==
    LET firstEntry == group.firstEntry
        allEntries == group.allEntries
        lastEntry  == LastEntry(allEntries)
        errors     == FlatErrors(allEntries)
    IN  [method             |-> firstEntry.Request.Method,
         url                |-> firstEntry.Request.Uri,
         requestHeaders     |-> firstEntry.Request.Headers,
         requestBody        |-> firstEntry.Request.Body,
         responseStatus     |-> lastEntry.Response.StatusCode,
         responseStatusText |-> OrDefault(lastEntry.Response.ReasonPhrase, "", "No Response"),
         responseHeaders    |-> lastEntry.Response.Headers,
         responseBody       |-> lastEntry.Response.Body,
         duration           |-> FormatMs(lastEntry.DurationMs),
         uniqueKey          |-> firstEntry.RequestId,
         title              |-> firstEntry.Request.Name,
         name               |-> firstEntry.Request.Name,
         templateUrl        |-> firstEntry.Request.Uri,
         retryInfo          |-> RetryInfoOf(firstEntry, allEntries),
         ErrorMessage       |-> IF Len(errors) > 0 THEN JoinErrors(errors) ELSE Undefined]

RECURSIVE FirstError(_)
RECURSIVE LastGroupError(_)
\* A mutation of FirstError: the last group that has an error gives it.
LastGroupError(map) ==
    IF map = <<>> THEN Null
    ELSE LET errors == FlatErrors(map[Len(map)].allEntries)
         IN  IF Len(errors) > 0 THEN errors[1]
             ELSE LastGroupError(SubSeq(map, 1, Len(map) - 1))

\* connectionError after the second pass: errors[0] of the first group, in
\* map order, that has a non-empty error.
FirstError(map) ==
    IF map = <<>> THEN Null
    ELSE LET errors == FlatErrors(Head(map).allEntries)
         IN  IF Len(errors) > 0 THEN errors[1] ELSE FirstError(Tail(map))

NoParseResult ==
    [requests |-> <<>>, connectionError |-> Null, foundHttpRequest |-> FALSE]

RECURSIVE FirstPassAbortOnSkip(_, _)
\* A mutation of FirstPass: a line that is not accepted ends the pass.
FirstPassAbortOnSkip(map, ls) ==
    IF ls = <<>> THEN map
    ELSE LET line == Head(ls)
         IN  IF Accepted(line)
             THEN FirstPassAbortOnSkip(GroupEntry(map, line.Request.Name, line),
                                       Tail(ls))
             ELSE map

RECURSIVE FirstPass(_, _)
\* Lines 199-234: the first pass over the non-blank lines ls, from map.
FirstPass(map, ls) ==
    IF ls = <<>> THEN map
    ELSE LET line == Head(ls)
         IN  FirstPass(IF Accepted(line)
                       THEN GroupEntry(map, line.Request.Name, line)
                       ELSE map,
                       Tail(ls))

\* A mutation of FoundHttpRequest: the flag is set before the validation of
\* Request and Response.
FoundAnyEntry(ls) == \E i \in DOMAIN ls : ls[i].kind = "entry"

\* Line 216: foundHttpRequest after the first pass over the lines ls.
FoundHttpRequest(ls) == \E i \in DOMAIN ls : Accepted(ls[i])

\* Lines 236-304: the second pass and the value returned.
SecondPass(map, found) ==
    [requests         |-> [g \in 1..Len(map) |-> InternalRequestOf(map[g])],
     connectionError  |-> FirstError(map),
     foundHttpRequest |-> found]

\* parseStructuredJsonRequests, lines 159-309: the locals and the value
\* returned for a file that exists or not and holds the lines fl.
ParsedState(exists, fl) ==
    IF ~exists
    THEN [lines            |-> <<>>,
          requestMap       |-> <<>>,
          foundHttpRequest |-> FALSE,
          parseResult      |->
             [requests |-> <<>>,
              connectionError |-> "Structured requests file not found - TeaPie might not support --requests-log-file parameter",
              foundHttpRequest |-> FALSE]]
    ELSE IF Len(NonBlankLines(fl)) = 0
    THEN [lines            |-> <<>>,
          requestMap       |-> <<>>,
          foundHttpRequest |-> FALSE,
          parseResult      |->
             [requests |-> <<>>,
              connectionError |-> "Empty JSONL file",
              foundHttpRequest |-> FALSE]]
    ELSE LET ls    == NonBlankLines(fl)
             map   == FirstPass(<<>>, ls)
             found == FoundHttpRequest(ls)
         IN  [lines            |-> ls,
              requestMap       |-> map,
              foundHttpRequest |-> found,
              parseResult      |-> SecondPass(map, found)]

\* Line i of a file is the i-th shape, stamped.
FileOf(shapes) == [i \in 1..Len(shapes) |-> Stamp(shapes[i], i)]

\* The log files the model reads: at most MaxLines lines, a missing file
\* has no lines.
JsonInit ==
    /\ fileExists \in BOOLEAN
    /\ fileReadable \in BOOLEAN
    /\ (~fileExists => ~fileReadable)
    /\ \E shapes \in SeqsUpTo(LineShapes, MaxLines) : fileLines = FileOf(shapes)
    /\ (~fileReadable => fileLines = <<>>)
    /\ jsonPc = "start"
    /\ lines = <<>>
    /\ requestMap = <<>>
    /\ foundHttpRequest = FALSE
    /\ parseResult = NoParseResult

\* The ingestor is not part of the run.
JsonIdle ==
    /\ fileExists = FALSE
    /\ fileReadable = FALSE
    /\ fileLines = <<>>
    /\ jsonPc = "idle"
    /\ lines = <<>>
    /\ requestMap = <<>>
    /\ foundHttpRequest = FALSE
    /\ parseResult = NoParseResult

\* fs.readFile rejects (line 176) and the outer catch throws the error on
\* (lines 305-308).
ReadThrows(exists, readable) == exists /\ ~readable

\* parseOutput, lines 165-170: the ingestor is called once the report
\* parser has returned.
ReadyToParse ==
    /\ jsonPc = "start"
    /\ xmlPc = "done"

\* parseStructuredJsonRequests, lines 159-309.
ParseStructuredJsonRequests ==
    /\ ReadyToParse
    /\ IF ReadThrows(fileExists, fileReadable)
       THEN /\ jsonPc' = "threw"
            /\ UNCHANGED <<lines, requestMap, foundHttpRequest, parseResult>>
       ELSE /\ jsonPc' = "done"
            /\ LET after == ParsedState(fileExists, fileLines)
               IN  /\ lines' = after.lines
                   /\ requestMap' = after.requestMap
                   /\ foundHttpRequest' = after.foundHttpRequest
                   /\ parseResult' = after.parseResult
    /\ UNCHANGED <<fileExists, fileReadable, fileLines>>
    /\ UNCHANGED <<xmlVars, buildVars, sideVars>>

-----------------------------------------------------------------------------
(* Test attribution: XmlTestParser.parseTestResultsFromXml *)

CUSTOM_CSX_KEY == "_CUSTOM_CSX_TESTS"

\* The suite names of the reports: a name that is also the name of request
\* A (and of no request of a file that has only requests B), and a name with
\* the marker of the custom suites.
SuiteNames == {"A", "Custom CSX Tests"}

\* suiteName.includes('Custom CSX Tests')
IsCustomSuite(suiteName) == suiteName \in {"Custom CSX Tests"}

\* Case j of suite s of the report: named by its place, with a <failure>
\* element when s + j is a multiple of 3.
TestCaseOf(s, j) ==
    [name    |-> <<s, j>>,
     failed  |-> (s + j) % 3 = 0,
     message |-> "assertion failed"]

SuiteOf(s, suiteName, size) ==
    [name |-> suiteName, cases |-> [j \in 1..size |-> TestCaseOf(s, j)]]

RECURSIVE SumSeq(_)
SumSeq(ns) == IF ns = <<>> THEN 0 ELSE Head(ns) + SumSeq(Tail(ns))

\* The reports the model reads: at most MaxSuites suites holding at most
\* MaxCases test cases together.
Reports ==
    {[s \in 1..Len(shape) |-> SuiteOf(s, shape[s][1], shape[s][2])] :
        shape \in {sh \in SeqsUpTo(SuiteNames \X (0..MaxCases), MaxSuites) :
                      SumSeq([s \in 1..Len(sh) |-> sh[s][2]]) <= MaxCases}}

\* An entry of HttpFileParser.parseHttpFileForNames: a named request with
\* its count of test directives.
HttpFileRequestOf(name, count) ==
    [name               |-> name,
     title              |-> Undefined,
     method             |-> "GET",
     url                |-> "http://" \o name,
     hasTestDirectives  |-> count > 0,
     testDirectiveCount |-> count]

DirectiveSources ==
    SeqsUpTo({HttpFileRequestOf(n, c) : n \in RequestNames, c \in 0..MaxCount},
             MaxRequests)

\* Map<string, HttpTestResult[]>: get with the `|| []` default, and set.
MapGet(map, key) == IF key \in DOMAIN map THEN map[key] ELSE <<>>

MapSet(map, key, value) == (key :> value) @@ map

EmptyMap == [k \in {} |-> <<>>]

\* array.slice(from, to), 0-based, to exclusive.
Slice(s, from, to) ==
    LET hi == IF to < Len(s) THEN to ELSE Len(s)
    IN  IF from >= hi THEN <<>> ELSE SubSeq(s, from + 1, hi)

\* Lines 73-92: the HttpTestResult of one <testcase> match.
HttpTestResultOf(case) ==
    [Name    |-> case.name,
     Passed  |-> ~case.failed,
     Message |-> IF case.failed THEN case.message ELSE Undefined,
     Source  |-> "inline"]

\* Lines 68-93: `allTests` of a suite.
AllTestsOf(suite) ==
    [j \in 1..Len(suite.cases) |-> HttpTestResultOf(suite.cases[j])]

\* httpFileRequests.some(req => req.hasTestDirectives)
SomeHasTestDirectives(reqs) == \E i \in DOMAIN reqs : reqs[i].hasTestDirectives

RECURSIVE TotalInlineTests(_)
\* httpFileRequests.reduce((sum, req) => sum + (req.testDirectiveCount || 0), 0)
TotalInlineTests(reqs) ==
    IF reqs = <<>> THEN 0
    ELSE Head(reqs).testDirectiveCount + TotalInlineTests(Tail(reqs))

\* req.name || req.title || `${req.method} ${req.url}`
RequestNameOf(req) ==
    IF req.name \notin {Undefined, ""} THEN req.name
    ELSE IF req.title \notin {Undefined, ""} THEN req.title
    ELSE req.method \o " " \o req.url

RECURSIVE Distribute(_, _, _, _)
\* Lines 113-123: the slices of inlineTests, stored by request name.
Distribute(map, reqs, testIndex, inlineTests) ==
    IF reqs = <<>> THEN map
    ELSE LET req   == Head(reqs)
             count == req.testDirectiveCount
             requestTests == Slice(inlineTests, testIndex, testIndex + count)
         IN  IF count > 0
             THEN Distribute(IF Len(requestTests) > 0
                             THEN MapSet(map, RequestNameOf(req), requestTests)
                             ELSE map,
                             Tail(reqs), testIndex + count, inlineTests)
             ELSE Distribute(map, Tail(reqs), testIndex, inlineTests)

\* csxTests.forEach(test => test.Source = 'csx')
MarkCsx(tests) == [k \in 1..Len(tests) |-> [tests[k] EXCEPT !.Source = "csx"]]

\* A mutation of AppendCustom: the bucket is replaced.
AppendCustomReplace(map, tests) == MapSet(map, CUSTOM_CSX_KEY, tests)

\* allTestsByRequest.set('_CUSTOM_CSX_TESTS', [...existingCustomTests, ...tests])
AppendCustom(map, tests) ==
    MapSet(map, CUSTOM_CSX_KEY, MapGet(map, CUSTOM_CSX_KEY) \o tests)

\* Lines 109-110: the split of a suite's tests at the directive total.
InlineTestsOf(allTests, reqs) == Slice(allTests, 0, TotalInlineTests(reqs))

CsxTestsOf(allTests, reqs) == Slice(allTests, TotalInlineTests(reqs), Len(allTests))

\* `allTests` once the suite is handled: the objects of csxTests are
\* elements of allTests, so their new Source shows in allTests too.
AllTestsAfter(allTests, reqs) ==
    IF SomeHasTestDirectives(reqs)
    THEN InlineTestsOf(allTests, reqs) \o MarkCsx(CsxTestsOf(allTests, reqs))
    ELSE allTests

\* Lines 95-144: allTestsByRequest after one suite.
ByRequestAfter(map, suite, reqs) ==
    LET allTests == AllTestsOf(suite)
    IN  IF Len(allTests) = 0 THEN map
        ELSE IF IsCustomSuite(suite.name) THEN AppendCustom(map, allTests)
        ELSE IF SomeHasTestDirectives(reqs)
        THEN LET distributed == Distribute(map, reqs, 0, InlineTestsOf(allTests, reqs))
                 csxTests    == CsxTestsOf(allTests, reqs)
             IN  IF Len(csxTests) > 0
                 THEN AppendCustom(distributed, MarkCsx(csxTests))
                 ELSE distributed
        ELSE AppendCustom(map, allTests)

\* Lines 141-142: testResults after one suite.
ResultsAfter(map, suite, reqs) ==
    LET allTests == AllTestsOf(suite)
    IN  IF Len(allTests) > 0 /\ ~IsCustomSuite(suite.name)
        THEN MapSet(map, suite.name, AllTestsAfter(allTests, reqs))
        ELSE map

\* A mutation of NewMap: the map is a field that outlives the call.
KeptMap(previous) == previous

\* new Map<string, HttpTestResult[]>(), lines 16 and 62: the maps are locals
\* of the call, whatever an earlier call left in its own.
NewMap(previous) == EmptyMap

XmlInit ==
    /\ xmlSuites \in Reports
    /\ httpFileRequests \in DirectiveSources
    /\ xmlPc = "suites"
    /\ suiteIdx = 0
    /\ allTestsByRequest = EmptyMap
    /\ testResults = EmptyMap
    /\ xmlRun = 1
    /\ previousResults = EmptyMap

\* Lines 65-145: one iteration of the loop over the suites.
XmlSuite ==
    /\ xmlPc = "suites"
    /\ suiteIdx < Len(xmlSuites)
    /\ LET suite == xmlSuites[suiteIdx + 1]
       IN  /\ allTestsByRequest' = ByRequestAfter(allTestsByRequest, suite, httpFileRequests)
           /\ testResults' = ResultsAfter(testResults, suite, httpFileRequests)
    /\ suiteIdx' = suiteIdx + 1
    /\ UNCHANGED <<xmlSuites, httpFileRequests, xmlPc, xmlRun, previousResults>>
    /\ UNCHANGED <<jsonVars, buildVars, sideVars>>

\* Lines 147-156: the attributed lists are stored over the suite-name
\* entries and the mapping is returned.
XmlStore ==
    /\ xmlPc = "suites"
    /\ suiteIdx = Len(xmlSuites)
    /\ testResults' = allTestsByRequest @@ testResults
    /\ xmlPc' = "done"
    /\ UNCHANGED <<xmlSuites, httpFileRequests, suiteIdx, allTestsByRequest,
                   xmlRun, previousResults>>
    /\ UNCHANGED <<jsonVars, buildVars, sideVars>>

\* Lines 152-156: fs.readFile of the report, or the directive source asked
\* for a suite that has tests and is no custom suite, throws; the catch
\* returns the mapping as it is.
XmlCatch ==
    /\ xmlPc = "suites"
    /\ \/ suiteIdx = 0
       \/ /\ suiteIdx < Len(xmlSuites)
          /\ Len(xmlSuites[suiteIdx + 1].cases) > 0
          /\ ~IsCustomSuite(xmlSuites[suiteIdx + 1].name)
    /\ xmlPc' = "done"
    /\ UNCHANGED <<xmlSuites, httpFileRequests, suiteIdx, allTestsByRequest,
                   testResults, xmlRun, previousResults>>
    /\ UNCHANGED <<jsonVars, buildVars, sideVars>>

\* Lines 15-16 and 62 in a second call of the parser, on the same report
\* and the same answer of the directive source.
XmlRerun ==
    /\ xmlPc = "done"
    /\ xmlRun = 1
    /\ xmlRun' = 2
    /\ previousResults' = testResults
    /\ testResults' = NewMap(testResults)
    /\ allTestsByRequest' = NewMap(allTestsByRequest)
    /\ suiteIdx' = 0
    /\ xmlPc' = "suites"
    /\ UNCHANGED <<xmlSuites, httpFileRequests>>
    /\ UNCHANGED <<jsonVars, buildVars, sideVars>>

-----------------------------------------------------------------------------
(* Report stabilisation: XmlTestParser.waitForXmlReportUpdate *)

\* const pollInterval = 100
pollInterval == 100

\* setTimeout(resolve, 50) before the early return
settleDelay == 50

\* The clock of the model advances in steps of the settle delay, which
\* divides the poll interval.
ClockStep == settleDelay

\* No stat has returned a modification time; the file was not seen newer.
NoStat == -1
Never  == -1

\* The modification times of the model.
Mtimes == 0..MaxMtime

MissingFile == [exists |-> FALSE, mtime |-> 0]

FileAt(mtime) == [exists |-> TRUE, mtime |-> mtime]

\* The file is there with a modification time above the baseline.
Newer(file, baseline) == file.exists /\ file.mtime > baseline

\* A mutation of StatOutcome: a modification time equal to the baseline
\* counts as an update.
StatOutcomeNotOlder(file, baseline) ==
    IF ~file.exists THEN "pending"
    ELSE IF file.mtime >= baseline THEN "updated"
    ELSE "pending"

\* A mutation of StatOutcome: the failure of fs.stat is not caught.
StatOutcomeUncaught(file, baseline) ==
    IF ~file.exists THEN "threw"
    ELSE IF file.mtime > baseline THEN "updated"
    ELSE "pending"

\* Lines 181-192: fs.stat throws for a missing file and the catch goes on
\* to the next poll; a file is updated when its mtime is above the baseline.
StatOutcome(file, baseline) ==
    IF ~file.exists THEN "pending"
    ELSE IF file.mtime > baseline THEN "updated"
    ELSE "pending"

\* The waiter is not part of the run.
WaitIdle ==
    /\ now = 0
    /\ reportFile = MissingFile
    /\ waitPc = "idle"
    /\ beforeTimestamp = 0
    /\ maxWaitTime = 0
    /\ startTime = 0
    /\ wakeAt = 0
    /\ lastStat = NoStat
    /\ lastPollAt = Never
    /\ updatedAt = Never
    /\ writes = 0
    /\ waitWarned = FALSE

\* A report file of the reports directory: none, last-run-report.xml, or
\* run-<ts>-report.xml.
\* The calls of runHttpFile; the execution a call starts bears its number.
MaxCallers == 4

Callers == 1..MaxCallers

\* currentExecution: Promise<void> | null = null
NoExecution == 0

\* A _runHttpFileInternal promise: not created, pending, or settled.
NotStarted == [state |-> "none", requestId |-> 0]

Running(requestId) == [state |-> "running", requestId |-> requestId]

Finished(requestId) == [state |-> "finished", requestId |-> requestId]

\* The pages of the panel: none, getLoadingContent, getResultsContent or
\* getErrorContent of one execution.
NoPage == [kind |-> "none", of |-> 0]

LoadingPage(e) == [kind |-> "loading", of |-> e]

ResultsPage(e) == [kind |-> "results", of |-> e]

ErrorPage(e) == [kind |-> "error", of |-> e]

NoReport == [kind |-> "none", ts |-> 0]

LastRunReport == [kind |-> "last-run", ts |-> 0]

RunReport(ts) == [kind |-> "run", ts |-> ts]

\* executeTeaPie is not part of the run.
ExecIdle ==
    /\ execPc = "idle"
    /\ workspaceOpen = TRUE
    /\ lastRunFile = [exists |-> FALSE, fresh |-> FALSE]
    /\ otherRuns = {}
    /\ dirFiles = {}
    /\ dirReadable = TRUE
    /\ reportPath = Null
    /\ parsedReport = NoReport
    /\ events = <<>>
    /\ thrown = Null
    /\ meaningfulError = Null
    /\ execResult = [RequestGroup |-> <<>>]

\* Neither the waiter nor executeTeaPie is part of the run.
\* HttpRequestRunner line 57 and lines 50-55: no call of runHttpFile yet.
RunIdle ==
    /\ callPc = [c \in Callers |-> "idle"]
    /\ currentExecution = NoExecution
    /\ executions = [c \in Callers |-> NotStarted]
    /\ reactions = [c \in Callers |-> <<>>]
    /\ microtasks = <<>>
    /\ lastRequestId = 0
    /\ panelHtml = NoPage
    /\ started = <<>>

SideIdle == WaitIdle /\ ExecIdle /\ RunIdle

\* Lines 175-178: the call, for a report file that is missing or has any
\* modification time, a baseline and a timeout.
WaitInit ==
    /\ now = 0
    /\ reportFile \in {MissingFile} \cup {FileAt(m) : m \in Mtimes}
    /\ waitPc = "loop"
    /\ beforeTimestamp \in Mtimes \ {MaxMtime}
    /\ maxWaitTime \in {k * ClockStep : k \in 0..MaxWaitSteps}
    /\ startTime = now
    /\ wakeAt = 0
    /\ lastStat = NoStat
    /\ lastPollAt = Never
    /\ updatedAt = IF Newer(reportFile, beforeTimestamp) THEN now ELSE Never
    /\ writes = 0
    /\ waitWarned = FALSE

\* Line 180, and line 197 when the loop ends.
WaiterLoop ==
    /\ waitPc = "loop"
    /\ IF now - startTime < maxWaitTime
       THEN waitPc' = "stat" /\ UNCHANGED waitWarned
       ELSE waitPc' = "returned" /\ waitWarned' = TRUE
    /\ UNCHANGED <<now, reportFile, beforeTimestamp, maxWaitTime, startTime,
                   wakeAt, lastStat, lastPollAt, updatedAt, writes>>
    /\ UNCHANGED <<pipeVars, execVars, runVars>>

\* Lines 181-194: one poll, up to the setTimeout it ends with.
WaiterStat ==
    /\ waitPc = "stat"
    /\ LET outcome == StatOutcome(reportFile, beforeTimestamp)
       IN  /\ waitPc' = CASE outcome = "updated" -> "settle"
                          [] outcome = "pending" -> "sleep"
                          [] OTHER               -> "threw"
           /\ wakeAt' = CASE outcome = "updated" -> now + settleDelay
                          [] outcome = "pending" -> now + pollInterval
                          [] OTHER               -> wakeAt
    /\ lastStat' = IF reportFile.exists THEN reportFile.mtime ELSE NoStat
    /\ lastPollAt' = now
    /\ UNCHANGED <<now, reportFile, beforeTimestamp, maxWaitTime, startTime,
                   updatedAt, writes, waitWarned>>
    /\ UNCHANGED <<pipeVars, execVars, runVars>>

\* The pending setTimeout fires: the loop goes on (line 194), or the waiter
\* returns (lines 187-188).
WaiterWake ==
    /\ waitPc \in {"sleep", "settle"}
    /\ now = wakeAt
    /\ waitPc' = IF waitPc = "sleep" THEN "loop" ELSE "returned"
    /\ UNCHANGED <<now, reportFile, beforeTimestamp, maxWaitTime, startTime,
                   wakeAt, lastStat, lastPollAt, updatedAt, writes, waitWarned>>
    /\ UNCHANGED <<pipeVars, execVars, runVars>>

\* Time passes while the waiter is suspended on a timer.
ClockTick ==
    /\ waitPc \in {"sleep", "settle"}
    /\ now < wakeAt
    /\ now' = now + ClockStep
    /\ UNCHANGED <<reportFile, waitPc, beforeTimestamp, maxWaitTime, startTime,
                   wakeAt, lastStat, lastPollAt, updatedAt, writes, waitWarned>>
    /\ UNCHANGED <<pipeVars, execVars, runVars>>

\* The external writer creates or rewrites the report file while the waiter
\* runs; a modification time never goes back.
ReportWrite ==
    /\ waitPc \in {"loop", "stat", "sleep", "settle"}
    /\ writes < MaxWrites
    /\ writes' = writes + 1
    /\ \E m \in Mtimes :
          /\ reportFile.exists => m >= reportFile.mtime
          /\ reportFile' = FileAt(m)
    /\ updatedAt' = IF updatedAt = Never /\ Newer(reportFile', beforeTimestamp)
                    THEN now ELSE updatedAt
    /\ UNCHANGED <<now, waitPc, beforeTimestamp, maxWaitTime, startTime,
                   wakeAt, lastStat, lastPollAt, waitWarned>>
    /\ UNCHANGED <<pipeVars, execVars, runVars>>

WaiterStep == WaiterLoop \/ WaiterStat \/ WaiterWake

-----------------------------------------------------------------------------
(* Aggregation: TeaPieExecutor.parseOutput and buildHttpRequestResults *)

FileName == "requests"
FilePath == "requests.http"

NoResult == [RequestGroup |-> <<>>]

\* A mutation of MapConnectionError: the timeout class is tried first.
MapTimeoutFirst(errorMessage) ==
    IF Includes(errorMessage, "Reason:") /\ Includes(errorMessage, "Details:")
    THEN errorMessage
    ELSE IF Includes(errorMessage, "timeout")
    THEN ERROR_TIMEOUT \o "\n\nDetailed error: " \o errorMessage
    ELSE IF \/ Includes(errorMessage, "ECONNREFUSED")
            \/ Includes(errorMessage, "connection refused")
            \/ Includes(errorMessage, "actively refused")
    THEN ERROR_CONNECTION_REFUSED \o "\n\nDetailed error: " \o errorMessage
    ELSE IF \/ Includes(errorMessage, "ENOTFOUND")
            \/ Includes(errorMessage, "getaddrinfo")
    THEN ERROR_HOST_NOT_FOUND \o "\n\nDetailed error: " \o errorMessage
    ELSE ERROR_EXECUTION_FAILED \o "\n\nDetailed error: " \o errorMessage

\* mapConnectionError, lines 277-292.
MapConnectionError(errorMessage) ==
    IF Includes(errorMessage, "Reason:") /\ Includes(errorMessage, "Details:")
    THEN errorMessage
    ELSE IF \/ Includes(errorMessage, "ECONNREFUSED")
            \/ Includes(errorMessage, "connection refused")
            \/ Includes(errorMessage, "actively refused")
    THEN ERROR_CONNECTION_REFUSED \o "\n\nDetailed error: " \o errorMessage
    ELSE IF \/ Includes(errorMessage, "ENOTFOUND")
            \/ Includes(errorMessage, "getaddrinfo")
    THEN ERROR_HOST_NOT_FOUND \o "\n\nDetailed error: " \o errorMessage
    ELSE IF Includes(errorMessage, "timeout")
    THEN ERROR_TIMEOUT \o "\n\nDetailed error: " \o errorMessage
    ELSE ERROR_EXECUTION_FAILED \o "\n\nDetailed error: " \o errorMessage

\* createFailedResult, lines 330-348.
CreateFailedResult(errorMessage) ==
    [RequestGroup |->
        <<[Name     |-> FileName,
           FilePath |-> FilePath,
           Requests |-> <<[Name         |-> "HTTP request execution failed",
                           Status       |-> STATUS_FAILED,
                           Duration     |-> <<0, "ms">>,
                           Request      |-> Undefined,
                           Response     |-> Undefined,
                           Tests        |-> <<>>,
                           RetryInfo    |-> Undefined,
                           ErrorMessage |-> errorMessage]>>,
           Status   |-> STATUS_FAILED,
           Duration |-> <<0, "s">>]>>]

\* t.Source === 'inline' || !t.Source
IsInlineTest(t) == t.Source = "inline" \/ t.Source = Undefined

\* A mutation of RequestStatusOf: the tests are looked at before the HTTP
\* status.
RequestStatusTestsFirst(request, requestTestResults) ==
    LET httpSuccess == StatusSuccess(request.responseStatus)
        hasFailedInlineTests ==
            \E k \in DOMAIN requestTestResults :
                IsInlineTest(requestTestResults[k]) /\ ~requestTestResults[k].Passed
    IN  IF hasFailedInlineTests THEN STATUS_TESTS_FAILED
        ELSE IF ~httpSuccess THEN STATUS_FAILED
        ELSE STATUS_PASSED

\* Lines 210-222: the status of a canonical request.
RequestStatusOf(request, requestTestResults) ==
    LET httpSuccess == StatusSuccess(request.responseStatus)
        hasFailedInlineTests ==
            \E k \in DOMAIN requestTestResults :
                IsInlineTest(requestTestResults[k]) /\ ~requestTestResults[k].Passed
    IN  IF ~httpSuccess THEN STATUS_FAILED
        ELSE IF hasFailedInlineTests THEN STATUS_TESTS_FAILED
        ELSE STATUS_PASSED

\* Lines 205-246: the result entry of the canonical request at `index`
\* (0-based).  Tests: undefined is the empty sequence.
HttpRequestResultOf(request, index, testResultsFromXml) ==
    LET requestName == IF request.name \notin {Undefined, Null, ""}
                       THEN request.name
                       ELSE "Request " \o ToString(index + 1)
        requestTestResults == MapGet(testResultsFromXml, requestName)
    IN  [Name         |-> requestName,
         Status       |-> RequestStatusOf(request, requestTestResults),
         Duration     |-> request.duration,
         Request      |-> [Method      |-> request.method,
                           Url         |-> request.url,
                           TemplateUrl |-> request.templateUrl,
                           Headers     |-> request.requestHeaders,
                           Body        |-> request.requestBody],
         Response     |-> [StatusCode |-> request.responseStatus,
                           StatusText |-> request.responseStatusText,
                           Headers    |-> request.responseHeaders,
                           Body       |-> request.responseBody,
                           Duration   |-> request.duration],
         Tests        |-> requestTestResults,
         RetryInfo    |-> request.retryInfo,
         ErrorMessage |-> request.ErrorMessage]

\* A mutation of CustomCsxRequests: the first test alone decides the status.
CustomCsxFirstTestDecides(testResultsFromXml) ==
    LET customCsxTests == MapGet(testResultsFromXml, CUSTOM_CSX_KEY)
    IN  IF Len(customCsxTests) > 0
        THEN <<[Name         |-> "Custom CSX Tests",
                Status       |-> IF customCsxTests[1].Passed THEN "PASSED" ELSE "FAILED",
                Duration     |-> <<0, "ms">>,
                Request      |-> Undefined,
                Response     |-> Undefined,
                Tests        |-> customCsxTests,
                RetryInfo    |-> Undefined,
                ErrorMessage |-> Undefined]>>
        ELSE <<>>

\* Lines 248-259: the pseudo-request of the global bucket, if any.
CustomCsxRequests(testResultsFromXml) ==
    LET customCsxTests == MapGet(testResultsFromXml, CUSTOM_CSX_KEY)
        allCustomTestsPassed ==
            \A k \in DOMAIN customCsxTests : customCsxTests[k].Passed
    IN  IF Len(customCsxTests) > 0
        THEN <<[Name         |-> "Custom CSX Tests",
                Status       |-> IF allCustomTestsPassed THEN "PASSED" ELSE "FAILED",
                Duration     |-> <<0, "ms">>,
                Request      |-> Undefined,
                Response     |-> Undefined,
                Tests        |-> customCsxTests,
                RetryInfo    |-> Undefined,
                ErrorMessage |-> Undefined]>>
        ELSE <<>>

\* parseInt(r.Duration.replace('ms', '')) || 0
ParseDurationMs(duration) == IF duration[2] = "ms" THEN duration[1] ELSE 0

RECURSIVE TotalDuration(_)
TotalDuration(requests) ==
    IF requests = <<>> THEN 0
    ELSE ParseDurationMs(Head(requests).Duration) + TotalDuration(Tail(requests))

\* Line 266: the status of the group.
GroupStatusOf(requests) ==
    IF \E k \in DOMAIN requests : requests[k].Status = "FAILED"
    THEN "FAILED" ELSE "PASSED"

\* A mutation of BuildHttpRequestResults: a connection error does not end
\* the aggregation.
BuildWithoutShortCircuit(structuredResult, testResultsFromXml) ==
    LET requests ==
           [k \in 1..Len(structuredResult.requests) |->
               HttpRequestResultOf(structuredResult.requests[k], k - 1,
                                   testResultsFromXml)]
           \o CustomCsxRequests(testResultsFromXml)
    IN  [RequestGroup |->
           <<[Name     |-> FileName,
              FilePath |-> FilePath,
              Requests |-> requests,
              Status   |-> GroupStatusOf(requests),
              Duration |-> <<TotalDuration(requests), "ms">>]>>]

\* buildHttpRequestResults, lines 193-275.
BuildHttpRequestResults(structuredResult, testResultsFromXml) ==
    IF structuredResult.connectionError \notin {Null, ""}
    THEN CreateFailedResult(structuredResult.connectionError)
    ELSE LET requests ==
                [k \in 1..Len(structuredResult.requests) |->
                    HttpRequestResultOf(structuredResult.requests[k], k - 1,
                                        testResultsFromXml)]
                \o CustomCsxRequests(testResultsFromXml)
         IN  [RequestGroup |->
                <<[Name     |-> FileName,
                   FilePath |-> FilePath,
                   Requests |-> requests,
                   Status   |-> GroupStatusOf(requests),
                   Duration |-> <<TotalDuration(requests), "ms">>]>>]

\* A mutation of ParseOutputOf: a connection error of the ingestor is shown
\* before the check for an empty result.
ParseOutputErrorFirst(structuredParseResult, testResultsFromXml) ==
    IF /\ Len(structuredParseResult.requests) = 0
       /\ ~structuredParseResult.foundHttpRequest
       /\ structuredParseResult.connectionError = Null
    THEN CreateFailedResult("No HTTP requests found in structured JSON files")
    ELSE BuildHttpRequestResults(structuredParseResult, testResultsFromXml)

\* parseOutput, lines 173-190, once both parsers have returned.
ParseOutputOf(structuredParseResult, testResultsFromXml) ==
    IF Len(structuredParseResult.requests) = 0
       /\ ~structuredParseResult.foundHttpRequest
    THEN CreateFailedResult("No HTTP requests found in structured JSON files")
    ELSE BuildHttpRequestResults(structuredParseResult, testResultsFromXml)

\* String(error) of the error fs.readFile rejects with.
ReadError == "Error: EISDIR: illegal operation on a directory, read"

\* parseOutput, lines 179-182: the ingestor threw.
ParseOutputCatch(structuredError) ==
    CreateFailedResult("Failed to parse structured JSON requests: " \o structuredError)

\* parseOutput, lines 161-191: the results of the two parsers are merged.
BuildResults ==
    /\ buildPc = "start"
    /\ xmlPc = "done"
    /\ jsonPc \in {"done", "threw"}
    /\ result' = IF jsonPc = "threw"
                 THEN ParseOutputCatch(ReadError)
                 ELSE ParseOutputOf(parseResult, testResults)
    /\ buildPc' = "done"
    /\ UNCHANGED <<jsonVars, xmlVars, sideVars>>

\* The aggregator is not part of the run.
BuildIdle ==
    /\ buildPc = "idle"
    /\ result = NoResult

\* No report was found: the parser returned the empty mapping.
XmlNoReport ==
    /\ xmlSuites = <<>>
    /\ httpFileRequests = <<>>
    /\ xmlPc = "done"
    /\ suiteIdx = 0
    /\ allTestsByRequest = EmptyMap
    /\ testResults = EmptyMap
    /\ xmlRun = 1
    /\ previousResults = EmptyMap

\* The accepted lines of the logs handed to the aggregator.
BuildShapes ==
    {LineOf("entry", TRUE, TRUE, "A", 200, <<>>, FALSE),
     LineOf("entry", TRUE, TRUE, "A", 500, <<>>, FALSE),
     LineOf("entry", TRUE, TRUE, "A", 0, <<>>, FALSE),
     LineOf("entry", TRUE, TRUE, "B", 500, <<>>, FALSE),
     LineOf("entry", TRUE, TRUE, "B", 200, <<"", "ECONNREFUSED 127.0.0.1:80">>, FALSE)}

TestOf(k, passed, source) ==
    [Name    |-> <<0, k>>,
     Passed  |-> passed,
     Message |-> IF passed THEN Undefined ELSE "assertion failed",
     Source  |-> source]

\* The test lists handed to the aggregator under a request name: passed or
\* failed, tagged inline or csx, or failed with no tag.
RequestTestLists ==
    {[k \in 1..Len(t) |-> TestOf(k, t[k][1], t[k][2])] :
        t \in SeqsUpTo({<<TRUE, "inline">>, <<FALSE, "inline">>,
                        <<FALSE, "csx">>, <<FALSE, Undefined>>}, MaxTests)}

\* The test lists handed to the aggregator under the global key.
CustomTestLists ==
    {[k \in 1..Len(t) |-> TestOf(k, t[k], "csx")] :
        t \in SeqsUpTo(BOOLEAN, MaxTests)}

MapOf(key, tests) == IF tests = <<>> THEN EmptyMap ELSE key :> tests

\* The inputs of the aggregation: the state the ingestor leaves for a log
\* of at most MaxBuildLines accepted lines, and a mapping with tests of
\* request A and global tests.
BuildInit ==
    /\ fileExists = TRUE
    /\ fileReadable = TRUE
    /\ \E shapes \in SeqsUpTo(BuildShapes, MaxBuildLines) : fileLines = FileOf(shapes)
    /\ jsonPc = "done"
    /\ LET after == ParsedState(fileExists, fileLines)
       IN  /\ lines = after.lines
           /\ requestMap = after.requestMap
           /\ foundHttpRequest = after.foundHttpRequest
           /\ parseResult = after.parseResult
    /\ xmlSuites = <<>>
    /\ httpFileRequests = <<>>
    /\ xmlPc = "done"
    /\ suiteIdx = 0
    /\ \E a \in RequestTestLists, c \in CustomTestLists :
          testResults = MapOf("A", a) @@ MapOf(CUSTOM_CSX_KEY, c)
    /\ allTestsByRequest = testResults
    /\ xmlRun = 1
    /\ previousResults = EmptyMap
    /\ buildPc = "start"
    /\ result = NoResult
    /\ SideIdle

\* The lines of the logs handed to parseOutput: every shape of line, and an
\* entry that carries the one error of a refused connection.
OutputShapes ==
    LineShapes
    \cup {LineOf("entry", TRUE, TRUE, "A", 0, <<"ECONNREFUSED 127.0.0.1:80">>, FALSE)}

\* The reports handed to parseOutput: none, one suite of two cases, a
\* custom suite of one case followed by a suite of three.
OutputReports ==
    {<<>>,
     <<SuiteOf(1, "A", 2)>>,
     <<SuiteOf(1, "Custom CSX Tests", 1), SuiteOf(2, "A", 3)>>}

\* The answers of the directive source in parseOutput.
OutputSources ==
    {<<>>,
     <<HttpFileRequestOf("A", 2)>>,
     <<HttpFileRequestOf("A", 1), HttpFileRequestOf("B", 1)>>,
     <<HttpFileRequestOf("A", 0), HttpFileRequestOf("B", 1)>>}

\* parseOutput, line 161: a log that is missing, unreadable or holds at most
\* MaxBuildLines lines, a report and an answer of the directive source.
OutputInit ==
    /\ fileExists \in BOOLEAN
    /\ fileReadable \in BOOLEAN
    /\ (~fileExists => ~fileReadable)
    /\ \E shapes \in SeqsUpTo(OutputShapes, MaxBuildLines) : fileLines = FileOf(shapes)
    /\ (~fileReadable => fileLines = <<>>)
    /\ jsonPc = "start"
    /\ lines = <<>>
    /\ requestMap = <<>>
    /\ foundHttpRequest = FALSE
    /\ parseResult = NoParseResult
    /\ xmlSuites \in OutputReports
    /\ httpFileRequests \in OutputSources
    /\ xmlPc = "suites"
    /\ suiteIdx = 0
    /\ allTestsByRequest = EmptyMap
    /\ testResults = EmptyMap
    /\ xmlRun = 1
    /\ previousResults = EmptyMap
    /\ buildPc = "start"
    /\ result = NoResult
    /\ SideIdle

-----------------------------------------------------------------------------
(* The run: TeaPieExecutor.executeTeaPie *)

\* const timestamp = Date.now(), the stamp in the names of this run's files.
timestamp == 2

\* The stamp of the run-<ts>-report.xml an earlier run left, and that of
\* the one a run started later writes.
EarlierTimestamp == timestamp - 1

LaterTimestamp == timestamp + 1

\* maxWaitMs: number = 10000
defaultMaxWaitMs == 10000

\* The report this run writes, and the report another or an earlier run
\* wrote (its one test failed).
FreshSuites == <<SuiteOf(1, "A", 1)>>

StaleSuites == <<SuiteOf(2, "A", 1)>>

\* meaningfulError of a failed runner process, lines 136-139.
RunnerErrors ==
    {"connect ECONNREFUSED 127.0.0.1:5000",
     "Reason: Application Error\nDetails: No such host is known. (api:80)",
     "Command failed: teapie test",
     "getaddrinfo ENOTFOUND api",
     "connect ETIMEDOUT: timeout of 60000ms exceeded",
     "connection refused after timeout",
     "getaddrinfo timeout",
     "Reason: ECONNREFUSED",
     "Details: timeout\nReason: connection refused",
     "Connection Refused, Timeout"}

\* Names a reports directory may hold.
FileNames ==
    {"run-9-report.xml", "run-10-report.xml", "run-0-report.xml",
     "run-abc-report.xml", "run-x-run-11-report.xml", "notes.txt"}

\* The stamps of the run-<ts>-report.xml files the runs wrote.
RunFilesPresent ==
    otherRuns \cup (IF reportFile.exists THEN {timestamp} ELSE {})

LastRunName == "last-run-report.xml"

\* `run-${timestamp}-report.xml`, executeTeaPie line 48.
RunFileName(ts) == "run-" \o ToString(ts) \o "-report.xml"

\* The names fs.readdir finds beside last-run-report.xml.
DirNames == dirFiles \cup {RunFileName(ts) : ts \in RunFilesPresent}

\* The orders in which fs.readdir may list the names.
Orderings(S) == {files \in [1..Cardinality(S) -> S] : Range(files) = S}

StartsWith(s, t) == Len(s) >= Len(t) /\ SubSeq(s, 1, Len(t)) = t

EndsWith(s, t) ==
    Len(s) >= Len(t) /\ SubSeq(s, Len(s) - Len(t) + 1, Len(s)) = t

IsDigit(c) == Includes("0123456789", c)

DigitValue(c) == CHOOSE d \in 0..9 : SubSeq("0123456789", d + 1, d + 1) = c

\* parseInt of a string of digits.
RECURSIVE ParseInt(_)
ParseInt(digits) ==
    IF Len(digits) = 0 THEN 0
    ELSE ParseInt(SubSeq(digits, 1, Len(digits) - 1)) * 10
            + DigitValue(SubSeq(digits, Len(digits), Len(digits)))

\* /run-(\d+)-report\.xml/ matches f from position i, the digits ending at j.
MatchAt(f, i, j) ==
    /\ j >= i + 4
    /\ j + Len("-report.xml") <= Len(f)
    /\ SubSeq(f, i, i + 3) = "run-"
    /\ \A k \in (i + 4)..j : IsDigit(SubSeq(f, k, k))
    /\ SubSeq(f, j + 1, j + Len("-report.xml")) = "-report.xml"

\* Lines 42-43: parseInt(f.match(/run-(\d+)-report\.xml/)?.[1] || '0').
TimestampOf(f) ==
    LET matches == {m \in (1..Len(f)) \X (1..Len(f)) : MatchAt(f, m[1], m[2])}
    IN  IF matches = {} THEN 0
        ELSE LET first == CHOOSE m \in matches : \A n \in matches : m[1] <= n[1]
             IN  ParseInt(SubSeq(f, first[1] + 4, first[2]))

\* Line 33: the filter of the names read.
IsReportFile(f) == StartsWith(f, "run-") /\ EndsWith(f, "-report.xml")

\* A mutation of SortNewestFirst: the names are compared as strings do in
\* a sort without comparator, by the length of the name first.
RECURSIVE SortLongestFirst(_)
SortLongestFirst(files) ==
    IF files = <<>> THEN <<>>
    ELSE LET f == Head(files)
             rest == SortLongestFirst(Tail(files))
             Longer(g) == Len(g) < Len(f)
             NotLonger(g) == ~Longer(g)
         IN  SelectSeq(rest, Longer) \o <<f>> \o SelectSeq(rest, NotLonger)

\* Lines 41-45: reportFiles.sort by timestampB - timestampA, a stable sort.
RECURSIVE SortNewestFirst(_)
SortNewestFirst(files) ==
    IF files = <<>> THEN <<>>
    ELSE LET f == Head(files)
             rest == SortNewestFirst(Tail(files))
             Newest(g) == TimestampOf(g) > TimestampOf(f)
             NotNewest(g) == ~Newest(g)
         IN  SelectSeq(rest, Newest) \o <<f>> \o SelectSeq(rest, NotNewest)

\* XmlTestParser lines 22-52: the path of last-run-report.xml when it is
\* there, else of the first of the sorted run-*-report.xml, else none.
SelectReport(lastRunExists, readable, files) ==
    IF lastRunExists THEN LastRunName
    ELSE IF ~readable THEN Null
    ELSE LET reportFiles == SelectSeq(files, IsReportFile)
         IN  IF Len(reportFiles) = 0 THEN Null
             ELSE Head(SortNewestFirst(reportFiles))

\* The report file of a path.
ReportOf(path) ==
    IF path = Null THEN NoReport
    ELSE IF path = LastRunName THEN LastRunReport
    ELSE RunReport(TimestampOf(path))

\* XmlTestParser line 54: the content of the report file read.
ContentOf(report) ==
    IF report.kind = "last-run"
    THEN (IF lastRunFile.fresh THEN FreshSuites ELSE StaleSuites)
    ELSE IF report.kind = "run" /\ report.ts = timestamp
    THEN (IF Newer(reportFile, beforeTimestamp) THEN FreshSuites ELSE StaleSuites)
    ELSE IF report.kind = "run" THEN StaleSuites
    ELSE <<>>

\* executeTeaPie, line 34: the reports directory as earlier and other runs
\* left it, and the log the runner will have written.
ExecInit ==
    /\ execPc = "start"
    /\ workspaceOpen \in BOOLEAN
    /\ lastRunFile \in {[exists |-> FALSE, fresh |-> FALSE],
                        [exists |-> TRUE, fresh |-> FALSE]}
    /\ otherRuns \in SUBSET {EarlierTimestamp}
    /\ dirFiles = {}
    /\ dirReadable = TRUE
    /\ reportPath = Null
    /\ parsedReport = NoReport
    /\ events = <<>>
    /\ thrown = Null
    /\ meaningfulError = Null
    /\ execResult = NoResult
    /\ RunIdle
    /\ now = 0
    /\ reportFile \in {MissingFile, FileAt(1)}
    /\ waitPc = "idle"
    /\ beforeTimestamp = 0
    /\ maxWaitTime = 0
    /\ startTime = 0
    /\ wakeAt = 0
    /\ lastStat = NoStat
    /\ lastPollAt = Never
    /\ updatedAt = Never
    /\ writes = 0
    /\ waitWarned = FALSE
    /\ fileExists \in BOOLEAN
    /\ fileReadable = fileExists
    /\ fileLines = IF fileExists
                   THEN FileOf(<<LineOf("entry", TRUE, TRUE, "A", 200, <<>>, FALSE)>>)
                   ELSE <<>>
    /\ jsonPc = "start"
    /\ lines = <<>>
    /\ requestMap = <<>>
    /\ foundHttpRequest = FALSE
    /\ parseResult = NoParseResult
    /\ xmlSuites = <<>>
    /\ httpFileRequests = <<HttpFileRequestOf("A", 1)>>
    /\ xmlPc = "idle"
    /\ suiteIdx = 0
    /\ allTestsByRequest = EmptyMap
    /\ testResults = EmptyMap
    /\ xmlRun = 1
    /\ previousResults = EmptyMap
    /\ buildPc = "start"
    /\ result = NoResult

\* Lines 35-48.
ExecStart ==
    /\ execPc = "start"
    /\ IF workspaceOpen
       THEN execPc' = "baseline" /\ UNCHANGED thrown
       ELSE execPc' = "threw" /\ thrown' = "No workspace folder is open"
    /\ UNCHANGED meaningfulError
    /\ UNCHANGED <<workspaceOpen, lastRunFile, otherRuns, dirFiles, dirReadable, reportPath, parsedReport, events,
                   execResult>>
    /\ UNCHANGED <<pipeVars, waitVars, runVars>>

\* Lines 67-74: the modification time of the file at reportPath, 0 if it
\* is not there.
ExecBaseline ==
    /\ execPc = "baseline"
    /\ execPc' = "exec"
    /\ beforeTimestamp' = IF reportFile.exists THEN reportFile.mtime ELSE 0
    /\ events' = Append(events, "baseline")
    /\ UNCHANGED <<workspaceOpen, lastRunFile, otherRuns, dirFiles, dirReadable, reportPath, parsedReport, thrown, meaningfulError,
                   execResult>>
    /\ UNCHANGED <<now, reportFile, waitPc, maxWaitTime, startTime, wakeAt,
                   lastStat, lastPollAt, updatedAt, writes, waitWarned>>
    /\ UNCHANGED <<pipeVars, runVars>>

\* Line 114: the runner process is started.
ExecCommand ==
    /\ execPc = "exec"
    /\ execPc' = "running"
    /\ events' = Append(events, "runner-start")
    /\ UNCHANGED <<workspaceOpen, lastRunFile, otherRuns, dirFiles, dirReadable, reportPath, parsedReport, thrown, meaningfulError,
                   execResult>>
    /\ UNCHANGED <<pipeVars, waitVars, runVars>>

\* Lines 119-142: the runner process failed (no exit code 2 with output).
RunnerFails ==
    /\ execPc = "running"
    /\ execPc' = "threw"
    /\ \E message \in RunnerErrors :
          /\ meaningfulError' = message
          /\ thrown' = MapConnectionError(message)
    /\ events' = Append(events, "runner-end")
    /\ UNCHANGED <<workspaceOpen, lastRunFile, otherRuns, dirFiles, dirReadable, reportPath, parsedReport,
                   execResult>>
    /\ UNCHANGED <<pipeVars, waitVars, runVars>>

\* Lines 114-128 and 145: the runner process ended with exit code 0, or 2
\* with output; it wrote the file at reportPath or not, and rewrote
\* last-run-report.xml or not.  The waiter is called.
RunnerExits ==
    /\ execPc = "running"
    /\ execPc' = "wait"
    /\ \E wrote \in BOOLEAN :
          /\ reportFile' = IF wrote THEN FileAt(beforeTimestamp + 1) ELSE reportFile
          /\ updatedAt' = IF wrote THEN now ELSE updatedAt
          /\ writes' = IF wrote THEN writes + 1 ELSE writes
    /\ \E rewrote \in BOOLEAN :
          lastRunFile' = IF rewrote THEN [exists |-> TRUE, fresh |-> TRUE]
                         ELSE lastRunFile
    /\ waitPc' = "loop"
    /\ startTime' = now
    /\ maxWaitTime' = defaultMaxWaitMs
    /\ events' = events \o <<"runner-end", "wait-start">>
    /\ UNCHANGED <<workspaceOpen, otherRuns, dirFiles, dirReadable, reportPath, parsedReport, thrown, meaningfulError, execResult>>
    /\ UNCHANGED <<now, beforeTimestamp, wakeAt, lastStat, lastPollAt, waitWarned>>
    /\ UNCHANGED <<pipeVars, runVars>>

\* Lines 46-48 of an executeTeaPie started later (another window, or an
\* overlapping runHttpFile): its runner writes run-<later>-report.xml.
OtherRunWrites ==
    /\ execPc \in {"running", "wait"}
    /\ LaterTimestamp \notin otherRuns
    /\ otherRuns' = otherRuns \cup {LaterTimestamp}
    /\ UNCHANGED <<execPc, workspaceOpen, lastRunFile, dirFiles, dirReadable,
                   reportPath, parsedReport, events,
                   thrown, meaningfulError, execResult>>
    /\ UNCHANGED <<pipeVars, waitVars, runVars>>

\* Lines 145-147: the waiter returned and parseOutput is called.
ExecWaited ==
    /\ execPc = "wait"
    /\ waitPc = "returned"
    /\ execPc' = "parse"
    /\ xmlPc' = "select"
    /\ events' = Append(events, "wait-end")
    /\ UNCHANGED <<workspaceOpen, lastRunFile, otherRuns, dirFiles, dirReadable, reportPath, parsedReport, thrown, meaningfulError,
                   execResult>>
    /\ UNCHANGED <<xmlSuites, httpFileRequests, suiteIdx, allTestsByRequest,
                   testResults, xmlRun, previousResults>>
    /\ UNCHANGED <<jsonVars, buildVars, waitVars, runVars>>

\* XmlTestParser lines 20-55: the report file is chosen and read.
XmlSelectReport ==
    /\ xmlPc = "select"
    /\ \E files \in Orderings(DirNames) :
       LET path == SelectReport(lastRunFile.exists, dirReadable, files)
           report == ReportOf(path)
       IN  /\ reportPath' = path
           /\ parsedReport' = report
           /\ xmlSuites' = ContentOf(report)
           /\ xmlPc' = IF report = NoReport THEN "done" ELSE "suites"
    /\ events' = Append(events, "parse")
    /\ UNCHANGED <<execPc, workspaceOpen, lastRunFile, otherRuns, dirFiles,
                   dirReadable, thrown, meaningfulError, execResult>>
    /\ UNCHANGED <<httpFileRequests, suiteIdx, allTestsByRequest, testResults,
                   xmlRun, previousResults>>
    /\ UNCHANGED <<jsonVars, buildVars, waitVars, runVars>>

\* Lines 147-151: parseOutput returned.
ExecReturn ==
    /\ execPc = "parse"
    /\ buildPc = "done"
    /\ execPc' = "done"
    /\ execResult' = IF Len(result.RequestGroup[1].Requests) = 0
                     THEN CreateFailedResult(ERROR_NO_HTTP_FOUND)
                     ELSE result
    /\ UNCHANGED <<workspaceOpen, lastRunFile, otherRuns, dirFiles, dirReadable, reportPath, parsedReport, events,
                   thrown, meaningfulError>>
    /\ UNCHANGED <<pipeVars, waitVars, runVars>>

-----------------------------------------------------------------------------
(* The runner: HttpRequestRunner.runHttpFile *)

\* Lines 70-72 and 78-128: this.currentExecution = this._runHttpFileInternal(..),
\* which runs up to its await of executeTeaPie, then await this.currentExecution.
StartExecution(c) ==
    /\ lastRequestId' = lastRequestId + 1
    /\ executions' = [executions EXCEPT ![c] = Running(lastRequestId + 1)]
    /\ panelHtml' = LoadingPage(c)
    /\ started' = Append(started, c)
    /\ currentExecution' = c
    /\ reactions' = [reactions EXCEPT ![c] = Append(@, c)]
    /\ callPc' = [callPc EXCEPT ![c] = "awaiting"]

\* A mutation of ChainedResume: the call that waited starts nothing.
ChainedDropped(c) ==
    /\ microtasks' = Tail(microtasks)
    /\ UNCHANGED <<callPc, currentExecution, executions, reactions,
                   lastRequestId, panelHtml, started>>

\* Lines 66-70: the call resumes after await this.currentExecution and
\* starts its execution.
ChainedResume(c) ==
    /\ StartExecution(c)
    /\ microtasks' = Tail(microtasks)

\* Lines 64-72: a call of runHttpFile (a command or a Retry message), made
\* from the event loop when no continuation is ready.
RunHttpFile ==
    /\ microtasks = <<>>
    /\ \E c \in Callers :
          /\ callPc[c] = "idle"
          /\ \A d \in Callers : d < c => callPc[d] # "idle"
          /\ IF currentExecution # NoExecution
             THEN /\ callPc' = [callPc EXCEPT ![c] = "chained"]
                  /\ IF executions[currentExecution].state = "finished"
                     THEN microtasks' = Append(microtasks, c)
                          /\ UNCHANGED reactions
                     ELSE reactions' = [reactions EXCEPT
                                           ![currentExecution] = Append(@, c)]
                          /\ UNCHANGED microtasks
                  /\ UNCHANGED <<currentExecution, executions, lastRequestId,
                                 panelHtml, started>>
             ELSE /\ StartExecution(c)
                  /\ UNCHANGED microtasks
    /\ UNCHANGED <<pipeVars, waitVars, execVars>>

\* Lines 129 and 137: this.currentPanel && requestId === this.lastRequestId
MayWrite(e) ==
    /\ panelHtml # NoPage
    /\ executions[e].requestId = lastRequestId

\* Lines 127-146: executeTeaPie returned or threw; the results or the error
\* page is written to the panel if there is a panel and this is the latest
\* request, and the promise of _runHttpFileInternal resolves.
ExecutionCompletes ==
    /\ microtasks = <<>>
    /\ \E e \in Callers :
          /\ executions[e].state = "running"
          /\ executions' = [executions EXCEPT ![e] = Finished(@.requestId)]
          /\ \E page \in {ResultsPage(e), ErrorPage(e)} :
                panelHtml' = IF MayWrite(e) THEN page ELSE panelHtml
          /\ microtasks' = reactions[e]
          /\ reactions' = [reactions EXCEPT ![e] = <<>>]
    /\ UNCHANGED <<callPc, currentExecution, lastRequestId, started>>
    /\ UNCHANGED <<pipeVars, waitVars, execVars>>

\* Lines 71-75: the call that started the execution resumes; finally.
OwnerResumes ==
    /\ microtasks # <<>>
    /\ callPc[Head(microtasks)] = "awaiting"
    /\ callPc' = [callPc EXCEPT ![Head(microtasks)] = "returned"]
    /\ currentExecution' = NoExecution
    /\ microtasks' = Tail(microtasks)
    /\ UNCHANGED <<executions, reactions, lastRequestId, panelHtml, started>>
    /\ UNCHANGED <<pipeVars, waitVars, execVars>>

\* Lines 66-72: a call that awaited another call's execution resumes.
ChainedResumes ==
    /\ microtasks # <<>>
    /\ callPc[Head(microtasks)] = "chained"
    /\ ChainedResume(Head(microtasks))
    /\ UNCHANGED <<pipeVars, waitVars, execVars>>

\* Lines 108-117: the user closes the panel; onDidDispose.
PanelClosed ==
    /\ microtasks = <<>>
    /\ panelHtml # NoPage
    /\ panelHtml' = NoPage
    /\ UNCHANGED <<callPc, currentExecution, executions, reactions, microtasks,
                   lastRequestId, started>>
    /\ UNCHANGED <<pipeVars, waitVars, execVars>>

\* Lines 33-55: dispose() drops the panel and resets lastRequestId; it
\* leaves currentExecution and the executions in flight alone.
Dispose ==
    /\ microtasks = <<>>
    /\ panelHtml' = NoPage
    /\ lastRequestId' = 0
    /\ UNCHANGED <<callPc, currentExecution, executions, reactions, microtasks,
                   started>>
    /\ UNCHANGED <<pipeVars, waitVars, execVars>>

-----------------------------------------------------------------------------
(* Specifications *)

\* parseOutput as a whole: the report parser, the ingestor, the aggregation.
OutputNext ==
    \/ XmlSuite
    \/ XmlStore
    \/ XmlCatch
    \/ ParseStructuredJsonRequests
    \/ BuildResults

SpecOutput == OutputInit /\ [][OutputNext]_vars

\* The JSONL ingestion alone.
IngestInit == JsonInit /\ XmlNoReport /\ BuildIdle /\ SideIdle

IngestNext == ParseStructuredJsonRequests

SpecIngest == IngestInit /\ [][IngestNext]_vars

\* The test attribution alone.
AttributionInit == XmlInit /\ JsonIdle /\ BuildIdle /\ SideIdle

AttributionNext == XmlSuite \/ XmlStore

SpecXml == AttributionInit /\ [][AttributionNext]_vars

\* The test attribution called twice on the same report.
TwiceNext == XmlSuite \/ XmlStore \/ XmlRerun

SpecXmlTwice == AttributionInit /\ [][TwiceNext]_vars

\* The stabilisation waiter alone, with the writer of the report file.
WaiterInit == WaitInit /\ ExecIdle /\ RunIdle /\ JsonIdle /\ XmlNoReport /\ BuildIdle

WaiterNext == WaiterStep \/ ClockTick \/ ReportWrite

SpecWait == WaiterInit /\ [][WaiterNext]_vars

\* The event loop runs a continuation that is ready, and time passes while
\* a timer is pending.
SpecWaitFair == SpecWait /\ WF_vars(WaiterStep) /\ WF_vars(ClockTick)

\* executeTeaPie as a whole, with the runner process.
ExecNext ==
    \/ ExecStart
    \/ ExecBaseline
    \/ ExecCommand
    \/ RunnerFails
    \/ RunnerExits
    \/ OtherRunWrites
    \/ WaiterStep
    \/ ClockTick
    \/ ExecWaited
    \/ XmlSelectReport
    \/ XmlSuite
    \/ XmlStore
    \/ ParseStructuredJsonRequests
    \/ BuildResults
    \/ ExecReturn

SpecExec == ExecInit /\ [][ExecNext]_vars

\* The parser alone, on a reports directory of any content.
SelectInit ==
    /\ execPc = "idle"
    /\ workspaceOpen = TRUE
    /\ lastRunFile \in {[exists |-> FALSE, fresh |-> FALSE],
                        [exists |-> TRUE, fresh |-> FALSE]}
    /\ otherRuns = {}
    /\ dirFiles \in {S \in SUBSET FileNames : Cardinality(S) <= MaxFiles}
    /\ dirReadable \in BOOLEAN
    /\ reportPath = Null
    /\ parsedReport = NoReport
    /\ events = <<>>
    /\ thrown = Null
    /\ meaningfulError = Null
    /\ execResult = NoResult
    /\ WaitIdle /\ RunIdle /\ JsonIdle /\ BuildIdle
    /\ xmlSuites = <<>>
    /\ httpFileRequests = <<HttpFileRequestOf("A", 1)>>
    /\ xmlPc = "select"
    /\ suiteIdx = 0
    /\ allTestsByRequest = EmptyMap
    /\ testResults = EmptyMap
    /\ xmlRun = 1
    /\ previousResults = EmptyMap

SelectNext == XmlSelectReport \/ XmlSuite \/ XmlStore

SpecSelect == SelectInit /\ [][SelectNext]_vars

\* Overlapping calls of runHttpFile.
RunnerInit ==
    RunIdle /\ WaitIdle /\ ExecIdle /\ JsonIdle /\ XmlNoReport /\ BuildIdle

RunnerNext ==
    \/ RunHttpFile
    \/ ExecutionCompletes
    \/ OwnerResumes
    \/ ChainedResumes
    \/ PanelClosed
    \/ Dispose

SpecRun == RunnerInit /\ [][RunnerNext]_vars

\* Every call of executeTeaPie terminates, and the event loop runs the
\* continuations that are ready.
SpecRunFair ==
    /\ SpecRun
    /\ WF_vars(ExecutionCompletes)
    /\ WF_vars(OwnerResumes)
    /\ WF_vars(ChainedResumes)

\* The aggregation alone.
BuildNext == BuildResults

SpecBuild == BuildInit /\ [][BuildNext]_vars

-----------------------------------------------------------------------------
(* Properties of the JSONL ingestion, under SpecIngest *)

IngestDone == jsonPc = "done" /\ fileExists

RECURSIVE AcceptedIdxFrom(_, _)
AcceptedIdxFrom(name, i) ==
    IF i > Len(fileLines) THEN <<>>
    ELSE (IF Accepted(fileLines[i]) /\ fileLines[i].Request.Name = name
          THEN <<i>> ELSE <<>>) \o AcceptedIdxFrom(name, i + 1)

\* The places in the file of the accepted lines that carry the name, ascending.
AcceptedIdxOf(name) == AcceptedIdxFrom(name, 1)

\* The places <<g, k>> of the groups that hold the entry.
PlacesOf(entry) ==
    {<<g, k>> \in (DOMAIN requestMap) \X (DOMAIN fileLines) :
        /\ k \in DOMAIN requestMap[g].allEntries
        /\ requestMap[g].allEntries[k] = entry}

\* C1: every accepted line is held by exactly one group, the group keyed by
\* the line's Request.Name; there is one group, and one canonical request,
\* per name; a group holds only accepted lines of its name, in the order
\* of the log.
ThmC1_GroupedByName ==
    IngestDone =>
        /\ \A i \in DOMAIN fileLines :
              Accepted(fileLines[i]) =>
                  /\ Cardinality(PlacesOf(fileLines[i])) = 1
                  /\ \A p \in PlacesOf(fileLines[i]) :
                        requestMap[p[1]].key = fileLines[i].Request.Name
        /\ \A g, h \in DOMAIN requestMap :
              requestMap[g].key = requestMap[h].key => g = h
        /\ \A g \in DOMAIN requestMap :
              LET idx == AcceptedIdxOf(requestMap[g].key)
              IN  requestMap[g].allEntries = [k \in 1..Len(idx) |-> fileLines[idx[k]]]
        /\ Len(parseResult.requests) = Len(requestMap)
        /\ \A g \in DOMAIN requestMap :
              /\ parseResult.requests[g].name = requestMap[g].key
              /\ [k \in DOMAIN parseResult.requests[g].retryInfo.attempts |->
                    parseResult.requests[g].retryInfo.attempts[k].timestamp]
                 = [k \in DOMAIN requestMap[g].allEntries |->
                    requestMap[g].allEntries[k].StartTime]

\* A log A, B, A: request A holds lines 1 and 3, request B line 2.
WitC1_Interleaved ==
    /\ IngestDone
    /\ Len(parseResult.requests) = 2
    /\ parseResult.requests[1].name = "A"
    /\ Len(requestMap[1].allEntries) = 2
    /\ requestMap[1].allEntries[1].StartTime = 1
    /\ requestMap[1].allEntries[2].StartTime = 3
    /\ requestMap[2].allEntries[1].StartTime = 2

\* C2: a canonical request of a group of N accepted entries has
\* actualAttempts = N >= 1, wasRetried exactly when N > 1, and N attempts
\* numbered 1..N in the order of the log.
ThmC2_RetryInfoCounts ==
    IngestDone =>
        \A g \in DOMAIN parseResult.requests :
            LET request == parseResult.requests[g]
                idx     == AcceptedIdxOf(request.name)
                n       == Len(idx)
            IN  /\ n >= 1
                /\ request.retryInfo.actualAttempts = n
                /\ request.retryInfo.wasRetried = (n > 1)
                /\ Len(request.retryInfo.attempts) = n
                /\ \A k \in 1..n :
                      /\ request.retryInfo.attempts[k].attemptNumber = k
                      /\ request.retryInfo.attempts[k].timestamp
                            = fileLines[idx[k]].StartTime

\* A retried request next to one that ran once.
WitC2_RetriedAndSingle ==
    /\ IngestDone
    /\ Len(parseResult.requests) = 2
    /\ parseResult.requests[1].retryInfo.actualAttempts = 2
    /\ parseResult.requests[1].retryInfo.wasRetried
    /\ parseResult.requests[2].retryInfo.actualAttempts = 1
    /\ ~parseResult.requests[2].retryInfo.wasRetried

\* C3: the response of a canonical request (status code, reason phrase or
\* 'No Response' when the entry has none, headers, body, duration) is the
\* one of the last accepted line of its name.
ThmC3_LastResponse ==
    IngestDone =>
        \A g \in DOMAIN parseResult.requests :
            LET request == parseResult.requests[g]
                idx     == AcceptedIdxOf(request.name)
                last    == fileLines[idx[Len(idx)]]
            IN  /\ request.responseStatus = last.Response.StatusCode
                /\ request.responseStatusText =
                      (IF last.Response.ReasonPhrase = "" THEN "No Response"
                       ELSE last.Response.ReasonPhrase)
                /\ request.responseHeaders = last.Response.Headers
                /\ request.responseBody = last.Response.Body
                /\ request.duration = <<MathRound(last.DurationMs), "ms">>

\* A first attempt answered 200 and a last attempt answered 500.
WitC3_SuccessThenFailure ==
    /\ IngestDone
    /\ \E g \in DOMAIN parseResult.requests :
          LET request == parseResult.requests[g]
          IN  /\ Len(request.retryInfo.attempts) >= 2
              /\ request.retryInfo.attempts[1].success
              /\ request.retryInfo.attempts[1].statusCode = 200
              /\ request.responseStatus = 500
              /\ request.responseBody = Len(fileLines)

-----------------------------------------------------------------------------
(* Properties of the aggregation, under SpecBuild *)

BuildDone == buildPc = "done"

\* buildHttpRequestResults took its main path: canonical requests and no
\* connection error.
Aggregated ==
    /\ BuildDone
    /\ parseResult.connectionError = Null
    /\ Len(parseResult.requests) > 0

ResultGroup == result.RequestGroup[1]

\* C4: a request whose response status is outside [200,300) (0 included) is
\* Failed whatever its tests; otherwise it is TestsFailed when one of its
\* inline-tagged or untagged tests did not pass; otherwise Passed.  Tests
\* tagged csx have no part in it.
ThmC4_StatusPrecedence ==
    Aggregated =>
        \A k \in DOMAIN parseResult.requests :
            LET request == parseResult.requests[k]
                tests   == MapGet(testResults, request.name)
                entry   == ResultGroup.Requests[k]
                httpOk  == request.responseStatus \in 200..299
                failedInline ==
                    \E j \in DOMAIN tests :
                        /\ ~tests[j].Passed
                        /\ tests[j].Source \in {"inline", Undefined}
            IN  /\ entry.Name = request.name
                /\ ~httpOk => entry.Status = STATUS_FAILED
                /\ httpOk /\ failedInline => entry.Status = STATUS_TESTS_FAILED
                /\ httpOk /\ ~failedInline => entry.Status = STATUS_PASSED

\* Request A answered 500 and has a failing inline test: it is Failed.
WitC4_HttpFailureDominates ==
    /\ Aggregated
    /\ parseResult.requests[1].name = "A"
    /\ parseResult.requests[1].responseStatus = 500
    /\ \E j \in DOMAIN MapGet(testResults, "A") :
          /\ ~testResults["A"][j].Passed
          /\ testResults["A"][j].Source = "inline"
    /\ ResultGroup.Requests[1].Status = STATUS_FAILED

\* C5: the status of the group is the failed value when one of its requests
\* has the status Failed, and the passed value otherwise.
ClaimC5_GroupFailedIffRequestFailed ==
    BuildDone =>
        IF \E k \in DOMAIN ResultGroup.Requests :
              ResultGroup.Requests[k].Status = STATUS_FAILED
        THEN ResultGroup.Status \in {"Failed", "FAILED"}
        ELSE ResultGroup.Status \in {"Passed", "PASSED"}

\* C6: every request entry of a result has one of the three statuses
\* Passed, Failed, TestsFailed.
ClaimC6_StatusInEnum ==
    BuildDone =>
        \A k \in DOMAIN ResultGroup.Requests :
            ResultGroup.Requests[k].Status
                \in {STATUS_PASSED, STATUS_FAILED, STATUS_TESTS_FAILED}

-----------------------------------------------------------------------------
(* Properties of the test attribution, under SpecXml *)

XmlDone == xmlPc = "done"

\* The names of the tests of a list, in order.
NamesOf(tests) == [k \in DOMAIN tests |-> tests[k].Name]

\* The names of the cases of a suite from place `from` up to `to`, 0-based,
\* `to` excluded.
CaseNames(suite, from, to) ==
    LET cases == Slice(suite.cases, from, to)
    IN  [k \in DOMAIN cases |-> cases[k].name]

\* c1 + ... + ci of the directive source.
DirectivesUpTo(i) == TotalInlineTests(SubSeq(httpFileRequests, 1, i))

FileRequestNames == {RequestNameOf(httpFileRequests[i]) : i \in DOMAIN httpFileRequests}

\* The report is one non-custom suite with cases, the requests of the file
\* have distinct names and one of them has test directives.
OneSuiteOfDistinctRequests ==
    /\ Len(xmlSuites) = 1
    /\ ~IsCustomSuite(xmlSuites[1].name)
    /\ Len(xmlSuites[1].cases) > 0
    /\ SomeHasTestDirectives(httpFileRequests)
    /\ \A i, j \in DOMAIN httpFileRequests :
          RequestNameOf(httpFileRequests[i]) = RequestNameOf(httpFileRequests[j]) => i = j

\* C7: of a non-custom suite, request ri is given exactly the cases at the
\* places [c1+..+c(i-1), c1+..+ci), and every case from place c1+..+cn on is
\* in the global bucket.  Stated for a report of one suite and requests of
\* distinct names.
ClaimC7_PositionalSlices ==
    XmlDone /\ OneSuiteOfDistinctRequests =>
        /\ \A i \in DOMAIN httpFileRequests :
              NamesOf(MapGet(testResults, RequestNameOf(httpFileRequests[i])))
                 = CaseNames(xmlSuites[1], DirectivesUpTo(i - 1), DirectivesUpTo(i))
        /\ NamesOf(MapGet(testResults, CUSTOM_CSX_KEY))
              = CaseNames(xmlSuites[1], DirectivesUpTo(Len(httpFileRequests)),
                          Len(xmlSuites[1].cases))

RECURSIVE HeldUnder(_)
\* The number of tests the mapping returned holds under the keys.
HeldUnder(keys) ==
    IF keys = {} THEN 0
    ELSE LET key == CHOOSE k \in keys : TRUE
         IN  Len(MapGet(testResults, key)) + HeldUnder(keys \ {key})

\* C8: the tests held under the names of the requests are together no more
\* than the sum of the directive counts, and no request holds more tests
\* than its own count.
ClaimC8_InlineWithinDirectives ==
    XmlDone =>
        /\ HeldUnder(FileRequestNames) <= TotalInlineTests(httpFileRequests)
        /\ \A i \in DOMAIN httpFileRequests :
              Len(MapGet(testResults, RequestNameOf(httpFileRequests[i])))
                 <= httpFileRequests[i].testDirectiveCount

\* C9: every test under the global key is tagged csx and every test under
\* the name of a request is tagged inline.
ClaimC9_SourceTags ==
    XmlDone =>
        /\ \A k \in DOMAIN MapGet(testResults, CUSTOM_CSX_KEY) :
              testResults[CUSTOM_CSX_KEY][k].Source = "csx"
        /\ \A n \in FileRequestNames :
              \A k \in DOMAIN MapGet(testResults, n) :
                  testResults[n][k].Source = "inline"

\* A test without its Source tag.
Untagged(tests) ==
    [k \in DOMAIN tests |->
        [Name |-> tests[k].Name, Passed |-> tests[k].Passed, Message |-> tests[k].Message]]

CustomBucket(map) == Untagged(MapGet(map, CUSTOM_CSX_KEY))

IsPrefix(s, t) == Len(s) <= Len(t) /\ SubSeq(t, 1, Len(s)) = s

\* C10: handling a suite whose name has the marker 'Custom CSX Tests', or
\* any suite when no request declares test directives, appends all its
\* cases in order to the global bucket, after what the bucket held; no step
\* drops or reorders what the bucket held, and the mapping returned holds
\* the bucket as accumulated.
ThmC10_BucketAccumulates ==
    [][/\ (xmlPc = "suites" /\ suiteIdx' = suiteIdx + 1) =>
            /\ IsPrefix(CustomBucket(allTestsByRequest), CustomBucket(allTestsByRequest'))
            /\ (\/ IsCustomSuite(xmlSuites[suiteIdx'].name)
                \/ ~SomeHasTestDirectives(httpFileRequests))
               => CustomBucket(allTestsByRequest')
                     = CustomBucket(allTestsByRequest)
                          \o Untagged(AllTestsOf(xmlSuites[suiteIdx']))
       /\ (xmlPc = "suites" /\ xmlPc' = "done") =>
            CustomBucket(testResults') = CustomBucket(allTestsByRequest)
      ]_vars

\* A custom suite and then a suite of a file without test directives: the
\* bucket returned holds the cases of the first and then of the second.
WitC10_TwoSuitesAccumulated ==
    /\ XmlDone
    /\ Len(xmlSuites) = 2
    /\ IsCustomSuite(xmlSuites[1].name)
    /\ ~IsCustomSuite(xmlSuites[2].name)
    /\ ~SomeHasTestDirectives(httpFileRequests)
    /\ Len(xmlSuites[1].cases) = 2
    /\ Len(xmlSuites[2].cases) = 2
    /\ NamesOf(MapGet(testResults, CUSTOM_CSX_KEY))
          = <<<<1, 1>>, <<1, 2>>, <<2, 1>>, <<2, 2>>>>

-----------------------------------------------------------------------------
(* Properties of the repeated test attribution, under SpecXmlTwice *)

-----------------------------------------------------------------------------
(* Properties of the stabilisation waiter, under SpecWait and SpecWaitFair *)

\* The waiter returned without the timeout warning.
WaitReturnedEarly == waitPc = "returned" /\ ~waitWarned

\* The waiter returned from the end of its loop.
WaitTimedOut == waitPc = "returned" /\ waitWarned

\* The waiter is in its loop and has not seen a newer file.
WaitPolling == waitPc \in {"loop", "stat", "sleep"}

\* C12: the waiter returns without the timeout warning only when its last
\* poll read a modification time strictly above the baseline; that poll is
\* at most one poll interval after the file became newer, and the waiter
\* returns one settle delay after it without another poll.  While the
\* waiter polls, a newer file is never left unnoticed for more than one
\* poll interval.
ThmC12_EarlyReturnAfterNewerPoll ==
    /\ WaitReturnedEarly =>
          /\ lastStat > beforeTimestamp
          /\ updatedAt # Never
          /\ lastPollAt <= updatedAt + pollInterval
          /\ now = lastPollAt + settleDelay
    /\ (WaitPolling /\ updatedAt # Never) => now <= updatedAt + pollInterval

\* Baseline 1, a file of modification time 1 rewritten with time 2 after
\* 300 ms, timeout 500 ms: the waiter returns at 350 ms or at 450 ms.
WitC12_UpdateAfter300 ==
    /\ WaitReturnedEarly
    /\ beforeTimestamp = 1
    /\ reportFile = FileAt(2)
    /\ updatedAt = 3 * pollInterval
    /\ maxWaitTime = 5 * pollInterval
    /\ now \in {3 * pollInterval + settleDelay, 4 * pollInterval + settleDelay}

\* C13: the waiter always returns and never throws; when it returns from
\* the end of its loop the elapsed time has reached the timeout and is at
\* most one poll interval past it, no poll read a modification time above
\* the baseline (a missing file counts as not updated), and it polled up
\* to the last interval.
ThmC13_WaiterTerminates ==
    /\ <>(waitPc = "returned")
    /\ [](waitPc # "threw")
    /\ [](WaitTimedOut =>
            /\ now - startTime >= maxWaitTime
            /\ now - startTime <= maxWaitTime + pollInterval
            /\ lastStat <= beforeTimestamp
            /\ maxWaitTime > 0 => lastPollAt = now - pollInterval)

\* A report file that never exists and a timeout of 250 ms: the waiter
\* polls at 0, 100 and 200 ms and returns at 300 ms.
WitC13_MissingFileTimesOut ==
    /\ WaitTimedOut
    /\ ~reportFile.exists
    /\ writes = 0
    /\ lastStat = NoStat
    /\ maxWaitTime = 2 * pollInterval + settleDelay
    /\ lastPollAt = 2 * pollInterval
    /\ now = 3 * pollInterval

-----------------------------------------------------------------------------
(* Properties of parseOutput as a whole, under SpecOutput *)

OutputDone == buildPc = "done"

\* The log is missing, or can be read and none of its lines is accepted
\* (an empty file included).
NothingAccepted ==
    /\ fileExists => fileReadable
    /\ \A i \in DOMAIN fileLines : ~Accepted(fileLines[i])

\* The result is one group of exactly one request, which is Failed and
\* carries the message.
SingleFailedRequest(message) ==
    /\ Len(result.RequestGroup) = 1
    /\ Len(ResultGroup.Requests) = 1
    /\ ResultGroup.Requests[1].Status = STATUS_FAILED
    /\ ResultGroup.Requests[1].ErrorMessage = message

\* The short-circuit form: the single failed request, which is no canonical
\* request and has no request or response data and no tests.
ShortCircuit(message) ==
    /\ SingleFailedRequest(message)
    /\ ResultGroup.Requests[1].Name = "HTTP request execution failed"
    /\ ResultGroup.Requests[1].Request = Undefined
    /\ ResultGroup.Requests[1].Response = Undefined
    /\ ResultGroup.Requests[1].RetryInfo = Undefined
    /\ ResultGroup.Requests[1].Tests = <<>>

\* C14: for a log that is missing, empty or without an accepted line the
\* ingestor returns, without throwing, no request and foundHttpRequest =
\* false, and parseOutput returns one group of exactly one request, Failed,
\* with a 'No HTTP requests found' message.
ThmC14_NoRequestsSynthetic ==
    /\ (jsonPc # "start" /\ NothingAccepted) =>
          /\ jsonPc = "done"
          /\ parseResult.requests = <<>>
          /\ ~parseResult.foundHttpRequest
    /\ (OutputDone /\ NothingAccepted) =>
          /\ Len(result.RequestGroup) = 1
          /\ Len(ResultGroup.Requests) = 1
          /\ ResultGroup.Requests[1].Status = STATUS_FAILED
          /\ Includes(ResultGroup.Requests[1].ErrorMessage, "No HTTP requests found")

\* A log of a line that is no JSON and an entry without Response, next to
\* a report with tests: the synthetic result.
WitC14_OnlySkippedLines ==
    /\ OutputDone
    /\ fileExists
    /\ Len(fileLines) = 2
    /\ fileLines[1].kind = "badjson"
    /\ fileLines[2].kind = "entry"
    /\ DOMAIN testResults # {}
    /\ SingleFailedRequest("No HTTP requests found in structured JSON files")

\* The ingestor returned, with a connection error.
ConnectionErrorReturned ==
    /\ OutputDone
    /\ jsonPc = "done"
    /\ parseResult.connectionError # Null

\* C15 as claimed: whenever the ingestor returns a connection error (file
\* missing, file empty, or an error of a log entry), the result is the
\* short-circuit form whose ErrorMessage is that connection error.
ClaimC15_ConnectionErrorShortCircuits ==
    ConnectionErrorReturned => ShortCircuit(parseResult.connectionError)

\* C15 as amended: when the connection error comes from a log entry
\* (foundHttpRequest is true), the result is the short-circuit form whose
\* ErrorMessage is that connection error, with no canonical request and no
\* tests; when it reports a missing or empty file, the single failed
\* request carries 'No HTTP requests found in structured JSON files'.
ThmC15_EntryErrorShortCircuits ==
    /\ (ConnectionErrorReturned /\ parseResult.foundHttpRequest) =>
          ShortCircuit(parseResult.connectionError)
    /\ (ConnectionErrorReturned /\ ~parseResult.foundHttpRequest) =>
          ShortCircuit("No HTTP requests found in structured JSON files")

\* Request A answered 200 and request B carries a refused connection, next
\* to a report with tests of A: the result is the one failed request with
\* B's error.
WitC15_ErrorOfSecondRequest ==
    /\ ConnectionErrorReturned
    /\ Len(parseResult.requests) = 2
    /\ parseResult.requests[1].name = "A"
    /\ parseResult.requests[1].responseStatus = 200
    /\ parseResult.requests[1].ErrorMessage = Undefined
    /\ Len(MapGet(testResults, "A")) > 0
    /\ ShortCircuit("ECONNREFUSED 127.0.0.1:80")

\* The log is one accepted entry whose Errors are ["ECONNREFUSED ..."].
OneRefusedEntry ==
    /\ fileExists
    /\ Len(fileLines) = 1
    /\ Accepted(fileLines[1])
    /\ fileLines[1].Errors = <<"ECONNREFUSED 127.0.0.1:80">>

\* C16: for a log of one accepted entry whose Errors are ["ECONNREFUSED
\* ..."], the result is the short-circuit form and its ErrorMessage is the
\* message of mapConnectionError for that error: the ERROR_CONNECTION_REFUSED
\* text followed by the raw detail.
ClaimC16_RefusedConnectionMapped ==
    (OutputDone /\ OneRefusedEntry) =>
        /\ ShortCircuit(MapConnectionError("ECONNREFUSED 127.0.0.1:80"))
        /\ ResultGroup.Requests[1].ErrorMessage
              = ERROR_CONNECTION_REFUSED \o "\n\nDetailed error: "
                   \o "ECONNREFUSED 127.0.0.1:80"

\* C18: parseOutput always comes to its return: before it, the report
\* parser has a next step, or the ingestor is about to be called, or the
\* aggregation has its step, whatever the report and the log; the ingestor
\* reports foundHttpRequest = true exactly when it returns at least one
\* request; the result is one group with at least one request.
ThmC18_AlwaysOneGroupWithRequests ==
    /\ ~OutputDone =>
          \/ ReadyToParse
          \/ ENABLED (XmlSuite \/ XmlStore \/ XmlCatch)
          \/ ENABLED BuildResults
    /\ jsonPc = "done" =>
          (parseResult.foundHttpRequest <=> Len(parseResult.requests) >= 1)
    /\ OutputDone =>
          /\ Len(result.RequestGroup) = 1
          /\ Len(ResultGroup.Requests) >= 1

\* The report parser gave up before its last suite and the log holds a
\* line that is no JSON before an accepted entry.
WitC18_PartialReportAndBadLine ==
    /\ OutputDone
    /\ suiteIdx < Len(xmlSuites)
    /\ Len(fileLines) = 2
    /\ fileLines[1].kind = "badjson"
    /\ Accepted(fileLines[2])
    /\ fileLines[2].Errors = <<>>
    /\ Len(ResultGroup.Requests) >= 1
    /\ ResultGroup.Requests[1].Name = fileLines[2].Request.Name

-----------------------------------------------------------------------------
(* Skipped lines of the log, under SpecIngest *)

\* The line is no JSON, has no Properties.RequestLogFileEntry, or is an
\* entry without Request or without Response.
SkippedLine(line) ==
    \/ line.kind \in {"badjson", "noentry"}
    \/ line.kind = "entry" /\ (~line.hasRequest \/ ~line.hasResponse)

RECURSIVE WithoutSkipped(_)
\* The log with its skipped lines removed.
WithoutSkipped(fl) ==
    IF fl = <<>> THEN <<>>
    ELSE (IF SkippedLine(Head(fl)) THEN <<>> ELSE <<Head(fl)>>)
            \o WithoutSkipped(Tail(fl))

\* C17: the ingestor comes to its return on a log with skipped lines, and
\* the requests it returns are the requests it returns for the same log
\* with the skipped lines removed.
ThmC17_SkippedLinesLeaveOthers ==
    (jsonPc # "start" /\ fileExists /\ fileReadable) =>
        /\ jsonPc = "done"
        /\ parseResult.requests
              = ParsedState(TRUE, WithoutSkipped(fileLines)).parseResult.requests

\* An accepted entry of A, a line that is no JSON, a second entry of A: one
\* request of two attempts, made at lines 1 and 3.
WitC17_BadLineBetweenAttempts ==
    /\ IngestDone
    /\ Len(fileLines) = 3
    /\ Accepted(fileLines[1])
    /\ fileLines[2].kind = "badjson"
    /\ Accepted(fileLines[3])
    /\ Len(parseResult.requests) = 1
    /\ parseResult.requests[1].retryInfo.actualAttempts = 2
    /\ parseResult.requests[1].retryInfo.attempts[2].timestamp = 3


\* The order of the steps of executeTeaPie.
ExecOrder == <<"baseline", "runner-start", "runner-end", "wait-start",
               "wait-end", "parse">>

\* The waiter saw the file at reportPath newer than the baseline.
FreshnessConfirmed == WaitReturnedEarly /\ Newer(reportFile, beforeTimestamp)

\* The steps of executeTeaPie happen in the order of ExecOrder.
ExecStepsInOrder ==
    \E n \in 0..Len(ExecOrder) : events = SubSeq(ExecOrder, 1, n)

\* C19: in executeTeaPie the baseline is taken before the runner starts,
\* the waiter runs after the runner ended and before the report is parsed,
\* the report file parsed is the file the waiter checked (the
\* run-<timestamp>-report.xml of this run), and a last-run-report.xml left
\* by another or an earlier run is never parsed without its freshness
\* having been confirmed.
ClaimC19_ParsedReportIsTheCheckedOne ==
    /\ ExecStepsInOrder
    /\ parsedReport # NoReport => parsedReport = RunReport(timestamp)
    /\ parsedReport = LastRunReport => lastRunFile.fresh /\ FreshnessConfirmed

\* The executions of _runHttpFileInternal in progress.
InProgress == {e \in Callers : executions[e].state = "running"}

\* C20: for any number of overlapping runHttpFile calls at most one
\* _runHttpFileInternal execution is in progress at any time.
ClaimC20_OneExecutionAtATime == Cardinality(InProgress) <= 1

\* The panel shows the results or the error page of an execution.
ShowsOutcome == panelHtml.kind \in {"results", "error"}

\* C21: the results or the error page is written to the panel only by the
\* most recently started execution: whenever the panel shows the page of an
\* execution, no execution was started after that one.
ClaimC21_OnlyLatestWritesPanel ==
    ShowsOutcome => panelHtml.of = started[Len(started)]

-----------------------------------------------------------------------------
(* The error message of a canonical request, under SpecIngest *)

NonEmpty(err) == err # ""

RECURSIVE ErrorsOfLines(_)
\* The non-empty error strings of the lines at the places idx of the file,
\* line after line, each line's in its own order.
ErrorsOfLines(idx) ==
    IF idx = <<>> THEN <<>>
    ELSE SelectSeq(fileLines[Head(idx)].Errors, NonEmpty)
            \o ErrorsOfLines(Tail(idx))

RECURSIVE Joined(_)
\* The strings errs with '; ' between them, built from the left.
Joined(errs) ==
    IF Len(errs) = 1 THEN errs[1]
    ELSE Joined(SubSeq(errs, 1, Len(errs) - 1)) \o "; " \o errs[Len(errs)]

-----------------------------------------------------------------------------
(* The pseudo-request of the global bucket, under SpecOutput *)

\* parseOutput called buildHttpRequestResults and returned its result.
BuildCalled ==
    /\ OutputDone
    /\ jsonPc = "done"
    /\ ~(Len(parseResult.requests) = 0 /\ ~parseResult.foundHttpRequest)

GlobalBucket == MapGet(testResults, CUSTOM_CSX_KEY)

\* The requests of the result are the canonical requests in the order of
\* the ingestion, followed, exactly when the global bucket is not empty, by
\* one pseudo-request that holds the bucket and whose status tells whether
\* every test of the bucket passed.
CanonicalThenPseudo ==
    LET n      == Len(parseResult.requests)
        extra  == IF GlobalBucket = <<>> THEN 0 ELSE 1
        emitted == ResultGroup.Requests
    IN  /\ Len(emitted) = n + extra
        /\ \A k \in 1..n :
              /\ emitted[k].Name = parseResult.requests[k].name
              /\ emitted[k].RetryInfo = parseResult.requests[k].retryInfo
        /\ extra = 1 =>
              /\ emitted[n + 1].Name = "Custom CSX Tests"
              /\ emitted[n + 1].Tests = GlobalBucket
              /\ IF \A t \in Range(GlobalBucket) : t.Passed
                 THEN emitted[n + 1].Status \in {"Passed", "PASSED"}
                 ELSE emitted[n + 1].Status \in {"Failed", "FAILED"}

\* C23 as stated: buildHttpRequestResults emits the canonical requests in
\* ingestion order and, exactly when the global bucket is non-empty, one
\* pseudo-request last, passed when every global test passed and failed
\* otherwise.
ClaimC23_PseudoRequestLast == BuildCalled => CanonicalThenPseudo

\* C23, amended: the same, when the ingestor reported no connectionError.
ThmC23_PseudoRequestLastWithoutError ==
    (BuildCalled /\ parseResult.connectionError = Null) => CanonicalThenPseudo

\* Two canonical requests, B before A, and a bucket of several tests the
\* first of which passed and another failed: the third request is the
\* failed pseudo-request.
WitC23_FailedBucketAfterTwoRequests ==
    /\ BuildCalled
    /\ parseResult.connectionError = Null
    /\ Len(parseResult.requests) = 2
    /\ parseResult.requests[1].name = "B"
    /\ Len(GlobalBucket) >= 2
    /\ \E t \in Range(GlobalBucket) : ~t.Passed
    /\ \E t \in Range(GlobalBucket) : t.Passed
    /\ GlobalBucket[1].Passed
    /\ Len(ResultGroup.Requests) = 3
    /\ ResultGroup.Requests[1].Name = "B"
    /\ ResultGroup.Requests[3].Status = "FAILED"

-----------------------------------------------------------------------------
(* The duration of the group, under SpecOutput *)

RECURSIVE MillisecondsUpTo(_)
\* The milliseconds of the first n requests of the result together; a
\* duration that is no number of milliseconds counts as 0.
MillisecondsUpTo(n) ==
    IF n = 0 THEN 0
    ELSE MillisecondsUpTo(n - 1)
            + (IF ResultGroup.Requests[n].Duration[2] = "ms"
               THEN ResultGroup.Requests[n].Duration[1]
               ELSE 0)

\* C24: the Duration of the group of every result, aggregated or synthetic,
\* is the sum of the milliseconds of its requests followed by 'ms'.
ClaimC24_GroupDurationIsSumInMs ==
    OutputDone =>
        ResultGroup.Duration
            = <<MillisecondsUpTo(Len(ResultGroup.Requests)), "ms">>

-----------------------------------------------------------------------------
(* The message of a failed runner process, under SpecExec *)

\* The runner process failed and executeTeaPie threw the mapped message.
RunnerFailed == execPc = "threw" /\ meaningfulError # Null

IsStructured(raw) == Includes(raw, "Reason:") /\ Includes(raw, "Details:")

IsRefused(raw) ==
    \/ Includes(raw, "ECONNREFUSED")
    \/ Includes(raw, "connection refused")
    \/ Includes(raw, "actively refused")

IsHostNotFound(raw) == Includes(raw, "ENOTFOUND") \/ Includes(raw, "getaddrinfo")

IsTimeout(raw) == Includes(raw, "timeout")

\* The message is the class text, an empty line, 'Detailed error: ' and
\* the raw message.
Classed(message, class, raw) ==
    /\ Len(message) = Len(class) + Len("\n\nDetailed error: ") + Len(raw)
    /\ SubSeq(message, 1, Len(class)) = class
    /\ SubSeq(message, Len(class) + 1, Len(message) - Len(raw))
          = "\n\nDetailed error: "
    /\ SubSeq(message, Len(message) - Len(raw) + 1, Len(message)) = raw

\* C25: a message with both 'Reason:' and 'Details:' is returned unchanged;
\* any other message gets exactly one class text, an empty line, 'Detailed
\* error: ' and the raw message, the class being the first that matches of
\* ConnectionRefused, HostNotFound, Timeout, and ExecutionFailed otherwise.
ThmC25_FirstMatchingClass ==
    RunnerFailed =>
        /\ IsStructured(meaningfulError) => thrown = meaningfulError
        /\ (~IsStructured(meaningfulError) /\ IsRefused(meaningfulError)) =>
              Classed(thrown, ERROR_CONNECTION_REFUSED, meaningfulError)
        /\ (/\ ~IsStructured(meaningfulError)
            /\ ~IsRefused(meaningfulError)
            /\ IsHostNotFound(meaningfulError)) =>
              Classed(thrown, ERROR_HOST_NOT_FOUND, meaningfulError)
        /\ (/\ ~IsStructured(meaningfulError)
            /\ ~IsRefused(meaningfulError)
            /\ ~IsHostNotFound(meaningfulError)
            /\ IsTimeout(meaningfulError)) =>
              Classed(thrown, ERROR_TIMEOUT, meaningfulError)
        /\ (/\ ~IsStructured(meaningfulError)
            /\ ~IsRefused(meaningfulError)
            /\ ~IsHostNotFound(meaningfulError)
            /\ ~IsTimeout(meaningfulError)) =>
              Classed(thrown, ERROR_EXECUTION_FAILED, meaningfulError)

\* A message that speaks of a refused connection and of a timeout is of the
\* class ConnectionRefused.
WitC25_RefusedBeforeTimeout ==
    /\ RunnerFailed
    /\ meaningfulError = "connection refused after timeout"
    /\ thrown = "Connection refused - please ensure the server is running and accessible\n\nDetailed error: connection refused after timeout"

-----------------------------------------------------------------------------
(* The report file the parser reads, under SpecSelect *)

\* The parser chose its report file.
ReportSelected == xmlPc # "select"

\* f is named run-<digits>-report.xml.
IsTimestamped(f) ==
    /\ Len(f) > Len("run-") + Len("-report.xml")
    /\ StartsWith(f, "run-")
    /\ EndsWith(f, "-report.xml")
    /\ \A k \in (Len("run-") + 1)..(Len(f) - Len("-report.xml")) :
          IsDigit(SubSeq(f, k, k))

\* The number a name run-<digits>-report.xml embeds.
Embedded(f) == ParseInt(SubSeq(f, Len("run-") + 1, Len(f) - Len("-report.xml")))

TimestampedFiles == {f \in DirNames : IsTimestamped(f)}

\* The parser returned the empty mapping and read no file.
ReturnedEmpty ==
    /\ reportPath = Null
    /\ xmlPc = "done"
    /\ testResults = EmptyMap

\* C26 as stated: last-run-report.xml is parsed when it exists; otherwise
\* the file named run-<digits>-report.xml of the numerically greatest
\* timestamp; the empty mapping is returned when there is no such file or
\* the directory cannot be read.
ClaimC26_GreatestTimestampedReport ==
    ReportSelected =>
        /\ lastRunFile.exists => reportPath = LastRunName
        /\ (~lastRunFile.exists /\ dirReadable /\ TimestampedFiles # {}) =>
              /\ reportPath \in TimestampedFiles
              /\ \A f \in TimestampedFiles : Embedded(f) <= Embedded(reportPath)
        /\ (~lastRunFile.exists /\ (~dirReadable \/ TimestampedFiles = {})) =>
              ReturnedEmpty

\* The names the parser takes for reports: run-, anything, -report.xml.
Candidates == {f \in DirNames : IsReportFile(f)}

\* The number the parser ranks a candidate by: the digits of a name
\* run-<digits>-report.xml, the digits of the first such part of a longer
\* name, 0 for a name without one.
Rank(f) == IF IsTimestamped(f) THEN Embedded(f) ELSE TimestampOf(f)

\* C26, amended: last-run-report.xml is parsed when it exists; otherwise a
\* file among those whose names start with run- and end with -report.xml
\* that no other such file outranks; the empty mapping is returned when
\* there is no such file or the directory cannot be read.
ThmC26_NoCandidateOutranksTheReport ==
    ReportSelected =>
        /\ lastRunFile.exists => reportPath = LastRunName
        /\ (~lastRunFile.exists /\ dirReadable /\ Candidates # {}) =>
              /\ reportPath \in Candidates
              /\ \A f \in Candidates : Rank(f) <= Rank(reportPath)
        /\ (~lastRunFile.exists /\ (~dirReadable \/ Candidates = {})) =>
              ReturnedEmpty

\* run-10-report.xml is read from a directory that holds run-9-report.xml
\* and a file that is no report.
WitC26_TenBeatsNine ==
    /\ ReportSelected
    /\ ~lastRunFile.exists
    /\ dirFiles = {"run-9-report.xml", "run-10-report.xml", "notes.txt"}
    /\ reportPath = "run-10-report.xml"

-----------------------------------------------------------------------------
(* The connection error of the ingestor, under SpecOutput *)

\* The ingestor read a file that holds a line and returned.
NonEmptyFileParsed == IngestDone /\ Len(NonBlankLines(fileLines)) > 0

\* The names whose accepted lines carry a non-empty error string.
NamesWithError ==
    {fileLines[i].Request.Name : i \in {j \in DOMAIN fileLines :
        /\ Accepted(fileLines[j])
        /\ ErrorsOfLines(AcceptedIdxOf(fileLines[j].Request.Name)) # <<>>}}

\* The first non-empty error string of the name, among those of
\* NamesWithError, whose first accepted line comes first in the log.
FirstGroupError ==
    LET name == CHOOSE n \in NamesWithError :
                    \A m \in NamesWithError :
                        Head(AcceptedIdxOf(n)) <= Head(AcceptedIdxOf(m))
    IN  Head(ErrorsOfLines(AcceptedIdxOf(name)))

\* C27: when an accepted line carries a non-empty error string,
\* connectionError is the first such string of the first group, in the order
\* of first appearance, that has one, and the unified result is the single
\* failed request that carries it; on a file that holds a line,
\* connectionError is null exactly when no accepted line carries a
\* non-empty error string.
ThmC27_FirstErrorOfFirstGroupWins ==
    NonEmptyFileParsed =>
        /\ NamesWithError # {} =>
              /\ parseResult.connectionError = FirstGroupError
              /\ OutputDone => SingleFailedRequest(FirstGroupError)
        /\ parseResult.connectionError = Null <=> NamesWithError = {}

\* The first attempt of A fails with an error and the second is answered
\* with 200: the result is the single failed request.
WitC27_ErrorOfAnEarlyAttempt ==
    /\ NonEmptyFileParsed
    /\ OutputDone
    /\ Len(fileLines) = 2
    /\ fileLines[1].Request.Name = "A" /\ fileLines[1].Errors = <<"timeout">>
    /\ fileLines[2].Request.Name = "A" /\ fileLines[2].Errors = <<>>
    /\ Accepted(fileLines[2]) /\ fileLines[2].Response.StatusCode = 200
    /\ Len(parseResult.requests) = 1
    /\ parseResult.connectionError = "timeout"
    /\ SingleFailedRequest("timeout")

-----------------------------------------------------------------------------
(* No test case lost or duplicated, under SpecXml *)

\* The places of the list stored under the key that hold the test case.
PlacesUnder(key, caseName) ==
    {k \in DOMAIN MapGet(testResults, key) : testResults[key][k].Name = caseName}

RECURSIVE Appearances(_, _)
\* How often the test case appears in the lists stored under the keys.
Appearances(keys, caseName) ==
    IF keys = {} THEN 0
    ELSE LET key == CHOOSE k \in keys : TRUE
         IN  Cardinality(PlacesUnder(key, caseName))
                + Appearances(keys \ {key}, caseName)

\* C28: every test case of every suite that is not a 'Custom CSX Tests'
\* suite appears exactly once in the lists stored under the names of the
\* requests of the directive source and the global key.
ClaimC28_EachCaseExactlyOnce ==
    XmlDone =>
        \A s \in DOMAIN xmlSuites :
            ~IsCustomSuite(xmlSuites[s].name) =>
                \A j \in DOMAIN xmlSuites[s].cases :
                    Appearances(FileRequestNames \cup {CUSTOM_CSX_KEY},
                                xmlSuites[s].cases[j].name) = 1

\* Two suites of one case each and the single request B with one test
\* directive: the case of the first suite is in no list.
LostCaseOfFirstSuite ==
    /\ XmlDone
    /\ Len(xmlSuites) = 2
    /\ \A s \in 1..2 : ~IsCustomSuite(xmlSuites[s].name) /\ Len(xmlSuites[s].cases) = 1
    /\ httpFileRequests = <<HttpFileRequestOf("B", 1)>>
    /\ Appearances({"B", CUSTOM_CSX_KEY}, <<1, 1>>) = 0
    /\ Appearances({"B", CUSTOM_CSX_KEY}, <<2, 1>>) = 1

-----------------------------------------------------------------------------
(* The tests a canonical request is merged with, under SpecOutput *)

\* The names of the cases that the positional slices of the requests called
\* `name` cut from the suites that are not 'Custom CSX Tests' suites.
OwnSlices(name) ==
    UNION {Range(CaseNames(xmlSuites[s], DirectivesUpTo(i - 1), DirectivesUpTo(i))) :
             s \in {t \in DOMAIN xmlSuites : ~IsCustomSuite(xmlSuites[t].name)},
             i \in {h \in DOMAIN httpFileRequests :
                      RequestNameOf(httpFileRequests[h]) = name}}

\* C29: the tests of a canonical request in the unified result are cases of
\* its own positional slice; a request without test directives, or with an
\* empty slice, has no Tests and is not TestsFailed, whatever the names of
\* the suites.
ClaimC29_OnlyOwnSlice ==
    Aggregated =>
        \A k \in DOMAIN parseResult.requests :
            LET entry == ResultGroup.Requests[k]
            IN  /\ Range(NamesOf(entry.Tests)) \subseteq OwnSlices(entry.Name)
                /\ OwnSlices(entry.Name) = {} =>
                      /\ entry.Tests = <<>>
                      /\ entry.Status # STATUS_TESTS_FAILED

\* Request A declares no test directives, the report holds a suite named A
\* and A, answered with 200, is TestsFailed.
TestsOfTheSuiteNamedLikeTheRequest ==
    /\ Aggregated
    /\ httpFileRequests = <<HttpFileRequestOf("A", 0), HttpFileRequestOf("B", 1)>>
    /\ ResultGroup.Requests[1].Name = "A"
    /\ ResultGroup.Requests[1].Tests # <<>>
    /\ ResultGroup.Requests[1].Status = STATUS_TESTS_FAILED

-----------------------------------------------------------------------------
(* Every call of runHttpFile completes, under SpecRunFair *)

\* The call was made.
Called(c) == callPc[c] # "idle"

\* The call started its own execution, the execution finished and the call
\* returned.
Completed(c) ==
    /\ callPc[c] = "returned"
    /\ \E k \in DOMAIN started : started[k] = c
    /\ executions[c].state = "finished"

\* C30: every call of runHttpFile that is made starts its own execution in
\* the end and completes, and whenever every call made has completed
\* currentExecution is null.
ThmC30_EveryCallCompletes ==
    /\ \A c \in Callers : Called(c) ~> Completed(c)
    /\ [](((\E c \in Callers : Called(c))
            /\ (\A c \in Callers : Called(c) => Completed(c)))
          => currentExecution = NoExecution)

\* Three calls were made, two of them while the execution of the first was
\* running, and all of them completed.
WitC30_ChainedCallsCompleted ==
    /\ \A c \in 1..3 : Completed(c)
    /\ Len(started) >= 3
    /\ executions[2].requestId = 2
    /\ executions[3].requestId = 3
    /\ executions[1].state = "finished"
    /\ currentExecution = NoExecution
=============================================================================
